---- MODULE Spec2Model ----
(***************************************************************************)
(* Profit calculation engine of ecompro                                    *)
(* (backend/apps/calculations/services/profit_calculator.py).              *)
(*                                                                         *)
(* Representation of Decimal values.  Every amount is an integer number of *)
(* units of 0.00001 (five decimal places), so that an input given with     *)
(* more than four decimals is representable and quantize(0.0001) is a real *)
(* rounding.  Every percentage rate is an integer number of hundredths of  *)
(* a percent (20.00 % = 2000).  profit_margin_percent is an integer number *)
(* of hundredths (18.40 = 1840).  Products and quotients of Decimals are   *)
(* kept as exact fractions num/den until the quantize that follows them:   *)
(* with the 28 significant digits of the decimal context and the 12-digit  *)
(* amounts of the data model no intermediate result is rounded before its  *)
(* quantize decides, so the exact fraction is what the code rounds.        *)
(***************************************************************************)
EXTENDS Integers, Sequences, FiniteSets, TLC

VARIABLES pc, args, result, prev, db, last, txn

vars == <<pc, args, result, prev, db, last, txn>>

----------------------------------------------------------------------------
(* Python values that reach calculate: a number, None, or a string that    *)
(* Decimal() and int() cannot parse.                                       *)

Num(v) == [kind |-> "num", val |-> v]
None == [kind |-> "none", val |-> 0]
Malformed == [kind |-> "str", val |-> 0]

----------------------------------------------------------------------------
(* Class constants of ProfitCalculator.                                    *)

\* Decimal('0.0001') in units of 0.00001
PRECISION == 10
\* Decimal('0.01') in units of 0.01: profit_margin_percent is kept in hundredths
DISPLAY_PRECISION == 1
\* Decimal('20.00') percent, in hundredths of a percent
DEFAULT_VAT_RATE == 2000
DEFAULT_COMMISSION_VAT_RATE == 2000
DEFAULT_CARGO_VAT_RATE == 2000
DEFAULT_PLATFORM_VAT_RATE == 2000
\* Decimal('100') percent in hundredths of a percent: the divisor of _percent_to_decimal
HUNDRED == 10000

\* ProfitCalculator() as built by get_calculator(): no arguments
default_vat_rate == DEFAULT_VAT_RATE
default_commission_vat_rate == DEFAULT_COMMISSION_VAT_RATE

----------------------------------------------------------------------------
(* Helpers of ProfitCalculator.                                            *)

Abs(x) == IF x < 0 THEN -x ELSE x
Sign(x) == IF x < 0 THEN -1 ELSE 1

\* <<q, r>> with x * m = q * d + r and 0 <= r < d, for x >= 0, m >= 0,
\* d > 0, computed by halving m so that no intermediate value exceeds 3 * d
\* (the exact product x * m of two Decimals does not fit a machine word).
RECURSIVE MulDiv(_, _, _)
MulDiv(x, m, d) ==
    IF m = 0 THEN <<0, 0>>
    ELSE LET h == MulDiv(x, m \div 2, d)
             r == 2 * h[2] + (m % 2) * (x % d)
         IN <<2 * h[1] + (m % 2) * (x \div d) + r \div d, r % d>>

\* Decimal.quantize(step, ROUND_HALF_UP) of the exact value x * m / den
\* (den > 0): the nearest multiple of step, a tie goes away from zero.
Quantize(x, m, den, step) ==
    LET qr == MulDiv(Abs(x), Abs(m), den * step)
        n == IF 2 * qr[2] >= den * step THEN qr[1] + 1 ELSE qr[1]
    IN Sign(x) * Sign(m) * n * step

\* the amount abs(value) printed in a note
NoteAmount(value) == Abs(value)

\* a faulty variant: the value is cut off after the fourth decimal
RoundDown(x, m, den) ==
    Sign(x) * Sign(m) * MulDiv(Abs(x), Abs(m), den * PRECISION)[1] * PRECISION

\* _round(value) for value = x * m / den
_round(x, m, den) == Quantize(x, m, den, PRECISION)

\* a faulty variant: the display value is cut off instead of rounded
RoundDisplayDown(x, m, den) ==
    Sign(x) * Sign(m) * MulDiv(Abs(x), Abs(m), den * DISPLAY_PRECISION)[1]
        * DISPLAY_PRECISION

\* _round_display(value) for value = x * m / den, in hundredths
_round_display(x, m, den) == Quantize(x, m, den, DISPLAY_PRECISION)

\* _to_decimal(value, default): None and anything Decimal(str(value))
\* rejects both come back as the default.
_to_decimal(value, default) ==
    IF value.kind = "none" THEN default
    ELSE IF value.kind = "num" THEN value.val
    ELSE default

\* _percent_to_decimal(percent) = percent / Decimal('100'), as the fraction
\* <<numerator, denominator>>
_percent_to_decimal(percent) == <<percent, HUNDRED>>

\* the notes appended by calculate, in the order of the code
MissingCostNote == [text |-> "Urun maliyeti girilmemis, 0 olarak hesaplandi.", amount |-> 0]
VatRefundNote(amount) == [text |-> "KDV iade durumu", amount |-> amount]
LossNote == [text |-> "Bu urun zarar ediyor!", amount |-> 0]

----------------------------------------------------------------------------
(* ProfitCalculator.calculate.  a is the record of the keyword arguments.  *)

\* int(quantity) if quantity else 1: 0 and None are falsy and become 1; a
\* non-numeric string is truthy and int() raises ValueError.
QuantityRaises(quantity) == quantity.kind = "str"

IntQuantity(quantity) ==
    IF quantity.kind = "num" /\ quantity.val # 0 THEN quantity.val ELSE 1

Raised(exc) == [status |-> "raised", exc |-> exc]

\* a faulty variant: the flag tests the cost for truth, so that a cost of 0
\* counts as absent
HasCostDataTruthy(product_cost_excl_vat) ==
    /\ product_cost_excl_vat.kind # "none"
    /\ ~(product_cost_excl_vat.kind = "num" /\ product_cost_excl_vat.val = 0)

\* has_cost_data = product_cost_excl_vat is not None (line 262)
HasCostData(product_cost_excl_vat) == product_cost_excl_vat.kind # "none"

\* lines 242-268: conversion of the arguments, the cost flag, the empty notes
ConvertInputs(a) ==
    LET has_cost_data == HasCostData(a.product_cost_excl_vat)
    IN [unit_price |-> _to_decimal(a.unit_price, 0),
        quantity |-> IntQuantity(a.quantity),
        discount_amount |-> _to_decimal(a.discount_amount, 0),
        sales_vat_rate |-> _to_decimal(a.sales_vat_rate, default_vat_rate),
        commission_rate |-> _to_decimal(a.commission_rate, 0),
        purchase_vat_rate |-> _to_decimal(a.purchase_vat_rate, default_vat_rate),
        cargo_cost_excl_vat |-> _to_decimal(a.cargo_cost_excl_vat, 0),
        platform_fee_excl_vat |-> _to_decimal(a.platform_fee_excl_vat, 0),
        withholding_tax_rate |-> _to_decimal(a.withholding_tax_rate, 0),
        commission_vat_rate |->
            _to_decimal(a.commission_vat_rate, default_commission_vat_rate),
        cargo_vat_rate |-> _to_decimal(a.cargo_vat_rate, DEFAULT_CARGO_VAT_RATE),
        platform_vat_rate |->
            _to_decimal(a.platform_vat_rate, DEFAULT_PLATFORM_VAT_RATE),
        has_cost_data |-> has_cost_data,
        product_cost_excl_vat |->
            IF ~has_cost_data THEN 0 ELSE _to_decimal(a.product_cost_excl_vat, 0),
        notes |-> <<>>]

\* Each step below takes the record r of the local variables assigned so
\* far and returns it extended by the locals the step assigns.

\* 1. revenue (lines 273-274)
Revenue(r) ==
    LET gross_sale_price == _round(r.unit_price, r.quantity, 1)
        net_sale_price == _round(gross_sale_price - r.discount_amount, 1, 1)
    IN r @@ [gross_sale_price |-> gross_sale_price,
             net_sale_price |-> net_sale_price]

\* vat_divisor = 1 + sales_vat_rate/100 as the fraction <<num, den>>
VatDivisor(sales_vat_rate) ==
    <<HUNDRED + _percent_to_decimal(sales_vat_rate)[1], HUNDRED>>

\* a faulty variant: the VAT share is computed from the rate and rounded on
\* its own instead of being the difference
ExtractSalesVatByRate(r) ==
    LET vat_divisor == VatDivisor(r.sales_vat_rate)
    IN r @@ [net_sale_price_excl_vat |->
                _round(r.net_sale_price, vat_divisor[2], vat_divisor[1]),
             sales_vat |->
                _round(r.net_sale_price, r.sales_vat_rate, vat_divisor[1])]

\* 2. extract sales VAT (lines 281-283)
ExtractSalesVat(r) ==
    LET vat_divisor == VatDivisor(r.sales_vat_rate)
        net_sale_price_excl_vat ==
            _round(Sign(vat_divisor[1]) * r.net_sale_price, vat_divisor[2],
                   Abs(vat_divisor[1]))
        sales_vat == _round(r.net_sale_price - net_sale_price_excl_vat, 1, 1)
    IN r @@ [net_sale_price_excl_vat |-> net_sale_price_excl_vat,
             sales_vat |-> sales_vat]

\* 3. product cost with VAT (lines 288-294)
ProductCost(r) ==
    LET pv == _percent_to_decimal(r.purchase_vat_rate)
        purchase_vat == _round(r.product_cost_excl_vat, pv[1], pv[2])
        product_cost_incl_vat == _round(r.product_cost_excl_vat + purchase_vat, 1, 1)
    IN [r EXCEPT !.notes = IF ~r.has_cost_data
                           THEN Append(@, MissingCostNote) ELSE @]
       @@ [purchase_vat |-> purchase_vat,
           product_cost_incl_vat |-> product_cost_incl_vat]

\* a faulty variant: commission on the VAT-inclusive price
CommissionBaseInclVat(r) == r.net_sale_price

\* commission_base = net_sale_price_excl_vat (lines 25 and 301)
CommissionBase(r) == r.net_sale_price_excl_vat

\* 4. commission on the VAT-excluded sale price (lines 300-306)
Commission(r) ==
    LET ca == _percent_to_decimal(r.commission_rate)
        commission_amount_excl_vat == _round(CommissionBase(r), ca[1], ca[2])
        cv == _percent_to_decimal(r.commission_vat_rate)
        commission_vat == _round(commission_amount_excl_vat, cv[1], cv[2])
        commission_total == _round(commission_amount_excl_vat + commission_vat, 1, 1)
    IN r @@ [commission_amount_excl_vat |-> commission_amount_excl_vat,
             commission_vat |-> commission_vat,
             commission_total |-> commission_total]

\* 5. cargo (lines 311-314)
Cargo(r) ==
    LET cv == _percent_to_decimal(r.cargo_vat_rate)
        cargo_vat == _round(r.cargo_cost_excl_vat, cv[1], cv[2])
        cargo_cost_total == _round(r.cargo_cost_excl_vat + cargo_vat, 1, 1)
    IN r @@ [cargo_vat |-> cargo_vat, cargo_cost_total |-> cargo_cost_total]

\* 6. platform service fee (lines 319-322)
PlatformFee(r) ==
    LET pv == _percent_to_decimal(r.platform_vat_rate)
        platform_fee_vat == _round(r.platform_fee_excl_vat, pv[1], pv[2])
        platform_fee_total == _round(r.platform_fee_excl_vat + platform_fee_vat, 1, 1)
    IN r @@ [platform_fee_vat |-> platform_fee_vat,
             platform_fee_total |-> platform_fee_total]

\* a faulty variant: a refund position is clamped to zero
NetVatPayableClamped(total_output_vat, total_input_vat) ==
    IF total_output_vat < total_input_vat THEN 0
    ELSE _round(total_output_vat - total_input_vat, 1, 1)

\* net_vat_payable (line 333)
NetVatPayable(total_output_vat, total_input_vat) ==
    _round(total_output_vat - total_input_vat, 1, 1)

\* 7. VAT settlement (lines 329-336)
VatSettlement(r) ==
    LET total_output_vat == r.sales_vat
        total_input_vat ==
            _round(r.purchase_vat + r.commission_vat + r.cargo_vat
                   + r.platform_fee_vat, 1, 1)
        net_vat_payable == NetVatPayable(total_output_vat, total_input_vat)
    IN [r EXCEPT !.notes =
            IF net_vat_payable < 0
            THEN Append(@, VatRefundNote(NoteAmount(net_vat_payable))) ELSE @]
       @@ [total_output_vat |-> total_output_vat,
           total_input_vat |-> total_input_vat,
           net_vat_payable |-> net_vat_payable]

\* 8. withholding tax (lines 342-344)
Withholding(r) ==
    LET wt == _percent_to_decimal(r.withholding_tax_rate)
    IN r @@ [withholding_tax |-> _round(r.net_sale_price_excl_vat, wt[1], wt[2])]

\* a faulty variant: the total cost takes cargo and platform fee with VAT
TotalsInclVat(r) ==
    r @@ [total_trendyol_deductions |->
            _round(r.commission_total + r.cargo_cost_total
                   + r.platform_fee_total, 1, 1),
          total_cost |->
            _round(r.product_cost_excl_vat + r.net_vat_payable
                   + r.commission_amount_excl_vat + r.cargo_cost_total
                   + r.platform_fee_total + r.withholding_tax, 1, 1)]

\* 9. and 10. total marketplace deductions and total cost (lines 350-366)
Totals(r) ==
    LET total_trendyol_deductions ==
            _round(r.commission_total + r.cargo_cost_total
                   + r.platform_fee_total, 1, 1)
        total_cost ==
            _round(r.product_cost_excl_vat + r.net_vat_payable
                   + r.commission_amount_excl_vat + r.cargo_cost_excl_vat
                   + r.platform_fee_excl_vat + r.withholding_tax, 1, 1)
    IN r @@ [total_trendyol_deductions |-> total_trendyol_deductions,
             total_cost |-> total_cost]

\* a faulty variant: the operands of the subtraction are exchanged
NetProfitSwapped(r) ==
    r @@ [net_profit |-> _round(r.total_cost - r.net_sale_price_excl_vat, 1, 1)]

\* 11. net profit (line 372)
NetProfit(r) ==
    r @@ [net_profit |-> _round(r.net_sale_price_excl_vat - r.total_cost, 1, 1)]

\* 12. profit margin, in hundredths of a percent (lines 377-382)
ProfitMargin(r) ==
    r @@ [profit_margin_percent |->
            IF r.net_sale_price_excl_vat > 0
            THEN _round_display(r.net_profit, 100 * 100,
                                r.net_sale_price_excl_vat)
            ELSE 0]

\* a faulty variant: zero profit counts as profitable
IsProfitableOrEven(net_profit) == net_profit >= 0

\* is_profitable = net_profit > 0 (line 384)
IsProfitable(net_profit) == net_profit > 0

\* the profitability flag and the loss note (lines 384-387)
Profitability(r) ==
    LET is_profitable == IsProfitable(r.net_profit)
    IN [r EXCEPT !.notes = IF ~is_profitable /\ r.has_cost_data
                           THEN Append(@, LossNote) ELSE @]
       @@ [is_profitable |-> is_profitable]

\* the return statement (lines 389-446)
MakeResult(r) ==
    [status |-> "ok",
     gross_sale_price |-> r.gross_sale_price,
     discount_amount |-> r.discount_amount,
     net_sale_price |-> r.net_sale_price,
     product_cost_excl_vat |-> r.product_cost_excl_vat,
     purchase_vat_rate |-> r.purchase_vat_rate,
     purchase_vat |-> r.purchase_vat,
     product_cost_incl_vat |-> r.product_cost_incl_vat,
     sales_vat_rate |-> r.sales_vat_rate,
     sales_vat |-> r.sales_vat,
     net_sale_price_excl_vat |-> r.net_sale_price_excl_vat,
     commission_rate |-> r.commission_rate,
     commission_amount_excl_vat |-> r.commission_amount_excl_vat,
     commission_vat_rate |-> r.commission_vat_rate,
     commission_vat |-> r.commission_vat,
     commission_total |-> r.commission_total,
     cargo_cost_excl_vat |-> r.cargo_cost_excl_vat,
     cargo_vat_rate |-> r.cargo_vat_rate,
     cargo_vat |-> r.cargo_vat,
     cargo_cost_total |-> r.cargo_cost_total,
     platform_fee_excl_vat |-> r.platform_fee_excl_vat,
     platform_fee_vat_rate |-> r.platform_vat_rate,
     platform_fee_vat |-> r.platform_fee_vat,
     platform_fee_total |-> r.platform_fee_total,
     withholding_tax_rate |-> r.withholding_tax_rate,
     withholding_tax |-> r.withholding_tax,
     total_output_vat |-> r.total_output_vat,
     total_input_vat |-> r.total_input_vat,
     net_vat_payable |-> r.net_vat_payable,
     total_trendyol_deductions |-> r.total_trendyol_deductions,
     total_cost |-> r.total_cost,
     net_profit |-> r.net_profit,
     profit_margin_percent |-> r.profit_margin_percent,
     is_profitable |-> r.is_profitable,
     has_cost_data |-> r.has_cost_data,
     calculation_notes |-> r.notes]

\* calculate(**a): the steps in the order of the code.  int(quantity)
\* raises before anything is computed; a sales VAT rate of -100 makes the
\* divisor zero and the division raises.
calculate(a) ==
    IF QuantityRaises(a.quantity) THEN Raised("ValueError")
    ELSE IF VatDivisor(ConvertInputs(a).sales_vat_rate)[1] = 0
    THEN Raised("DivisionByZero")
    ELSE MakeResult(Profitability(ProfitMargin(NetProfit(Totals(Withholding(
            VatSettlement(PlatformFee(Cargo(Commission(ProductCost(
            ExtractSalesVat(Revenue(ConvertInputs(a))))))))))))))

----------------------------------------------------------------------------
(* A caller of calculate.  args is the record of keyword arguments of the  *)
(* call in progress, result what it returned (or the exception it raised), *)
(* prev the <<args, result>> of the caller's previous call, if any.        *)

NoResult == [status |-> "pending"]
NoCall == [made |-> FALSE]

\* a caller of calculate alone uses no database and no service operation
NoDatabase == [connected |-> FALSE]
NoOperation == [op |-> "none", n |-> 0]

\* the worker processes that serve requests and run the scheduled tasks,
\* each with at most one database transaction open
Workers == {1, 2}
Idle == [op |-> "none"]
NoTransactions == [w \in Workers |-> Idle]

\* the largest quantity of an order line
MaxQuantity == 2

\* amounts in units of 0.00001: 0, 0.00325, 25.60, 120.00
UnitPrices == {0, 325, 2560000, 12000000}
Quantities == 0 .. MaxQuantity
\* 0, 1.00005
Discounts == {0, 100005}
\* 0, 0.00005, 0.00017, 50.00, 72.9999, 73.00
CostAmounts == {0, 5, 17, 5000000, 7299990, 7300000}
\* rates in hundredths of a percent: 20 %, 90 %, 100 %
PurchaseVatRates == {2000, 9000, 10000}
\* 0 %, 20 %, 100 %
SalesVatRates == {0, 2000, 10000}
\* 0 %, 12 %
CommissionRates == {0, 1200}
\* 0, 10.00
CargoCosts == {0, 1000000}
\* 5.00
PlatformFees == {500000}
\* 0 %, 1 %
WithholdingRates == {0, 100}
\* 18 %, 20 %
CommissionVatRates == {1800, 2000}
CargoVatRates == {2000}
PlatformVatRates == {2000}

\* the keyword arguments of one call
Args(up, q, d, c, pvr, svr, cr, cc, pf, wtr, cvr, cavr, plvr) ==
    [unit_price |-> up, quantity |-> q, discount_amount |-> d,
     product_cost_excl_vat |-> c, purchase_vat_rate |-> pvr,
     sales_vat_rate |-> svr, commission_rate |-> cr,
     cargo_cost_excl_vat |-> cc, platform_fee_excl_vat |-> pf,
     withholding_tax_rate |-> wtr, commission_vat_rate |-> cvr,
     cargo_vat_rate |-> cavr, platform_vat_rate |-> plvr]

NumsOf(S) == {Num(v) : v \in S}

\* calls with well-formed arguments; the product cost and the commission
\* VAT rate are Optional and may be None
Calls ==
    {Args(up, q, d, c, pvr, svr, cr, cc, pf, wtr, cvr, cavr, plvr) :
        up \in NumsOf(UnitPrices), q \in NumsOf(Quantities),
        d \in NumsOf(Discounts), c \in NumsOf(CostAmounts) \cup {None},
        pvr \in NumsOf(PurchaseVatRates), svr \in NumsOf(SalesVatRates),
        cr \in NumsOf(CommissionRates), cc \in NumsOf(CargoCosts),
        pf \in NumsOf(PlatformFees), wtr \in NumsOf(WithholdingRates),
        cvr \in NumsOf(CommissionVatRates) \cup {None},
        cavr \in NumsOf(CargoVatRates), plvr \in NumsOf(PlatformVatRates)}

Init ==
    /\ pc = "ready"
    /\ args \in Calls
    /\ result = NoResult
    /\ prev = NoCall
    /\ db = NoDatabase
    /\ last = NoOperation
    /\ txn = NoTransactions

\* calls in which any argument may be a string that is not a number, and
\* the arguments a caller may leave out are None; the numbers differ from
\* the defaults so that a default is visible in the result
LooseCalls ==
    {Args(up, q, d, c, pvr, svr, cr, cc, pf, wtr, cvr, cavr, plvr) :
        up \in {Num(12000000), Malformed},
        q \in {Num(MaxQuantity), None, Malformed},
        d \in {Num(100005), Malformed},
        c \in {Num(5000000), None, Malformed},
        pvr \in {Num(1000), Malformed}, svr \in {Num(1000), Malformed},
        cr \in {Num(1200), Malformed}, cc \in {Num(1000000), Malformed},
        pf \in {Num(500000), Malformed}, wtr \in {Num(100), Malformed},
        cvr \in {Num(1800), Malformed},
        cavr \in {Num(1000), Malformed}, plvr \in {Num(1000), Malformed}}

InitLoose ==
    /\ pc = "ready"
    /\ args \in LooseCalls
    /\ result = NoResult
    /\ prev = NoCall
    /\ db = NoDatabase
    /\ last = NoOperation
    /\ txn = NoTransactions

\* the caller invokes calculate with args and receives the result
Calculate ==
    /\ pc = "ready"
    /\ result' = calculate(args)
    /\ pc' = "returned"
    /\ UNCHANGED <<args, prev, db, last, txn>>

\* the caller repeats its call with another product cost and otherwise the
\* same arguments (a cost correction), keeping the previous outcome
ChangeCost(c) ==
    /\ pc = "returned"
    /\ prev = NoCall
    /\ c # args.product_cost_excl_vat
    /\ prev' = [made |-> TRUE, args |-> args, result |-> result]
    /\ args' = [args EXCEPT !.product_cost_excl_vat = c]
    /\ result' = NoResult
    /\ pc' = "ready"
    /\ UNCHANGED <<db, last, txn>>

Next ==
    \/ Calculate
    \/ \E c \in NumsOf(CostAmounts) : ChangeCost(c)

Spec == Init /\ [][Next]_vars

\* the same caller, starting from a call whose arguments may be malformed
SpecLoose == InitLoose /\ [][Next]_vars

----------------------------------------------------------------------------
(* The database of the calculation service                                 *)
(* (backend/apps/calculations/services/calculation_service.py).            *)
(*                                                                         *)
(* Orders and the imported columns of their lines are fixed data of the    *)
(* scenario: no code of the service writes them.  db holds what the        *)
(* service and the product endpoints write: the product link and the       *)
(* is_calculated flag of every line, the products, the stored              *)
(* OrderItemCalculation rows and the daily summaries.  Every service       *)
(* operation is a function from a database to the database it leaves, its  *)
(* return value and whether it raised.                                     *)

Sellers == {1, 2}
OrderIds == {1, 2}
Lines == 1 .. 4
ProductIds == {1, 2}

\* Order.seller_account, Order.status, Order.order_date (as a day number)
Order(seller_account, status, order_date) ==
    [seller_account |-> seller_account, status |-> status,
     order_date |-> order_date]

orders ==
    [o \in OrderIds |->
        CASE o = 1 -> Order(1, "Delivered", 1)
          [] o = 2 -> Order(2, "Cancelled", 2)]

\* the imported columns of an order line; amounts are VAT-included with two
\* decimals, vatBase is the entry of raw_data (0 when it is missing)
OrderItem(order, barcode, item_status, unit_price, quantity, discount_amount, commission_rate, cargo_cost, platform_service_fee, vatBase) ==
    [order |-> order, barcode |-> barcode, item_status |-> item_status,
     unit_price |-> unit_price, quantity |-> quantity,
     discount_amount |-> discount_amount, commission_rate |-> commission_rate,
     cargo_cost |-> cargo_cost, platform_service_fee |-> platform_service_fee,
     vatBase |-> vatBase]

\* The first order has line 1, sold at 0.05 and imported without vatBase,
\* line 2, the reference sale of 120.00, and the returned line 3; line 4 is
\* an active line of the cancelled order of the other seller.  The lines
\* are numbered in the order of Meta.ordering = ['order', 'id'].
order_items ==
    [l \in Lines |->
        CASE l = 1 -> OrderItem(1, "A", "active", 5000, 1, 0, 0, 0, 0, 0)
          [] l = 2 -> OrderItem(1, "A", "active", 12000000, 1, 0, 1200,
                                1200000, 600000, 20)
          [] l = 3 -> OrderItem(1, "A", "returned", 2560000, 2, 0, 1200,
                                0, 0, 20)
          [] l = 4 -> OrderItem(2, "A", "active", 2560000, 1, 100000, 0,
                                1200000, 0, 20)]

\* the primary key of the product of a seller with a barcode
\* (unique_together = ['seller_account', 'barcode'])
ProductKey(p) ==
    CASE p = 1 -> <<1, "A">>
      [] p = 2 -> <<2, "A">>

NoProduct == 0

\* a row of products; rates in hundredths of a percent, the cost and the
\* commission rate are nullable
Product(product_cost_excl_vat, purchase_vat_rate, sales_vat_rate, commission_rate, has_cost_data) ==
    [exists |-> TRUE, product_cost_excl_vat |-> product_cost_excl_vat,
     purchase_vat_rate |-> purchase_vat_rate,
     sales_vat_rate |-> sales_vat_rate, commission_rate |-> commission_rate,
     has_cost_data |-> has_cost_data]

Absent == [exists |-> FALSE]

\* Order.is_revenue_order
is_revenue_order(o) ==
    orders[o].status \in {"Created", "Picking", "Invoiced", "Shipped",
                          "Delivered"}

\* OrderItem.is_revenue_item
is_revenue_item(l) ==
    order_items[l].item_status = "active"
    /\ is_revenue_order(order_items[l].order)

\* the outcome of a service operation: the database it leaves, what it
\* returned, and whether it raised instead of returning
Done(d, ret) == [db |-> d, ok |-> TRUE, ret |-> ret]
Failed(d) == [db |-> d, ok |-> FALSE, ret |-> <<>>]

\* OrderItem.link_product: get_or_create of the product of the line's
\* seller and barcode, with the VAT rates of a product found with rate 0
\* filled from vatBase, then the link is saved.  product is the object the
\* line holds afterwards; Product.save recomputes its has_cost_data.
link_product(d, l) ==
    LET vat_rate == order_items[l].vatBase * 100
        p == CHOOSE q \in ProductIds :
                ProductKey(q) = <<orders[order_items[l].order].seller_account,
                                  order_items[l].barcode>>
        found == d.products[p]
        created == ~found.exists
        fill_sales == ~created /\ found.sales_vat_rate = 0 /\ vat_rate > 0
        fill_purchase == ~created /\ found.purchase_vat_rate = 0 /\ vat_rate > 0
        row == IF created
               THEN Product(None, vat_rate, vat_rate, None, FALSE)
               ELSE [found EXCEPT
                        !.sales_vat_rate = IF fill_sales THEN vat_rate ELSE @,
                        !.purchase_vat_rate =
                            IF fill_purchase THEN vat_rate ELSE @]
        product == IF fill_sales \/ fill_purchase
                   THEN [row EXCEPT !.has_cost_data =
                                        row.product_cost_excl_vat # None]
                   ELSE row
    IN [db |-> [d EXCEPT !.products[p] = row, !.items[l].product = p],
        product |-> product]

\* an OrderItem object as a query returns it: item.id is its product_id
\* and item.product the product row loaded with it (select_related) or on
\* first access; both are the values of the database d it was read from
Fetch(d, l) ==
    [id |-> d.items[l].product,
     product |-> IF d.items[l].product = NoProduct THEN Absent
                 ELSE d.products[d.items[l].product]]

\* if not order_item.product: order_item.link_product() (lines 46-48)
LinkIfNeeded(d, l, item) ==
    IF item.id = NoProduct
    THEN link_product(d, l)
    ELSE [db |-> d, product |-> item.product]

\* a faulty variant: the calculation reads the product the object held
\* before link_product ran
ProductBeforeLink(item, linked) == item.product

\* order_item.product as calculate_for_order_item reads it, after the link
ProductOfItem(item, linked) == linked.product

\* a faulty variant: the base of a charge is cut to four decimals
ExtractChargeVatDown(charge) == RoundDown(charge, HUNDRED, HUNDRED + 2000)

\* the extraction of the 20 % VAT of a Trendyol charge
\* (profit_calculator.py lines 475-484)
ExtractChargeVat(charge) == _round(charge, HUNDRED, HUNDRED + 2000)

\* ProfitCalculator.calculate_for_order_item, for the imported columns item
\* of a line and its product object (Absent when the line has none); the
\* arguments it does not pass take the defaults of calculate's signature
calculate_for_order_item(item, product) ==
    LET use_product == product.exists /\ product.has_cost_data
        commission_rate ==
            IF use_product /\ product.commission_rate # None
                           /\ product.commission_rate.val # 0
            THEN product.commission_rate.val
            ELSE IF item.commission_rate # 0 THEN item.commission_rate
            ELSE 1200
    IN calculate(Args(
          Num(item.unit_price), Num(item.quantity), Num(item.discount_amount),
          IF use_product THEN product.product_cost_excl_vat ELSE None,
          Num(IF use_product THEN product.purchase_vat_rate
              ELSE default_vat_rate),
          Num(IF use_product THEN product.sales_vat_rate
              ELSE default_vat_rate),
          Num(commission_rate),
          Num(ExtractChargeVat(item.cargo_cost)),
          Num(ExtractChargeVat(item.platform_service_fee)),
          Num(0), None, Num(2000), Num(2000)))

\* the keys of the defaults of update_or_create (lines 56-113)
DefaultsKeys ==
    {"gross_sale_price", "discount_amount", "net_sale_price",
     "product_cost_excl_vat", "purchase_vat_rate", "purchase_vat",
     "product_cost_incl_vat", "sales_vat_rate", "sales_vat",
     "net_sale_price_excl_vat", "commission_rate",
     "commission_amount_excl_vat", "commission_vat_rate", "commission_vat",
     "commission_total", "cargo_cost_excl_vat", "cargo_vat_rate", "cargo_vat",
     "cargo_cost_total", "platform_fee_excl_vat", "platform_fee_vat_rate",
     "platform_fee_vat", "platform_fee_total", "withholding_tax_rate",
     "withholding_tax", "total_output_vat", "total_input_vat",
     "net_vat_payable", "total_trendyol_deductions", "total_cost",
     "net_profit", "profit_margin_percent", "is_profitable", "has_cost_data",
     "calculation_notes"}

Defaults(res) == [f \in DefaultsKeys |-> res[f]]

\* profit_margin_percent is a column of 7 digits with 2 decimals: the
\* database rejects a margin of 100000.00 or more in absolute value.  (The
\* amount columns have 12 digits with 4 decimals; the amounts of the
\* scenario are far below their range.)
MarginColumnLimit == 10000000

Storable(res) == Abs(res.profit_margin_percent) < MarginColumnLimit

NextId(rows) ==
    IF rows = {} THEN 1
    ELSE 1 + (CHOOSE i \in {r.id : r \in rows} :
                 \A r \in rows : r.id <= i)

\* a faulty variant: a new row is inserted whether or not the line has one
create(rows, l, defaults) ==
    rows \cup {[id |-> NextId(rows), order_item |-> l] @@ defaults}

\* OrderItemCalculation.objects.update_or_create(order_item=l,
\* defaults=...): the row of the line takes the defaults, or a row is
\* inserted when the line has none
update_or_create(rows, l, defaults) ==
    IF \E r \in rows : r.order_item = l
    THEN {IF r.order_item = l
          THEN [f \in DOMAIN r |->
                    IF f \in DOMAIN defaults THEN defaults[f] ELSE r[f]]
          ELSE r : r \in rows}
    ELSE rows \cup {[id |-> NextId(rows), order_item |-> l] @@ defaults}

\* the end of calculate_order_item (lines 52-120): the result res of the
\* line is stored in the database linked and the line is marked; d is the
\* database the transaction began with
StoreCalculation(d, linked, l, res) ==
    IF res.status # "ok" THEN Failed(d)
    ELSE IF ~Storable(res) THEN Failed(d)
    ELSE Done([linked EXCEPT
                 !.calculations = update_or_create(@, l, Defaults(res)),
                 !.items[l].is_calculated = TRUE],
              l)

\* calculate_order_item after the link (lines 50-120)
CalculateLinked(d, l, item, linked) ==
    StoreCalculation(d, linked.db, l,
                     calculate_for_order_item(order_items[l],
                                              ProductOfItem(item, linked)))

\* CalculationService.calculate_order_item for the object item of line l,
\* a transaction: an exception of the calculation or of the database
\* leaves the database as it was
calculate_order_item(d, l, item) ==
    CalculateLinked(d, l, item, LinkIfNeeded(d, l, item))

\* SellerAccount.default_commission_rate of the sellers: seller 1 has the
\* default of the column, 12 %, seller 2 has set 15 %
seller_accounts ==
    [s \in Sellers |->
        [default_commission_rate |-> IF s = 1 THEN 1200 ELSE 1500]]

\* the lines a query selects, in the order of Meta.ordering
ItemsWhere(selected) ==
    LET Test(l) == l \in selected
    IN SelectSeq([i \in 1 .. Cardinality(Lines) |-> i], Test)

\* a faulty variant: a line counts whatever the status of its order
is_active_item(l) == order_items[l].item_status = "active"

\* the test of the loop of calculate_order (line 134)
IsCalculatedWithOrder(l) == is_revenue_item(l)

\* results.append(result) (line 136) after the outcome first of a line
Collected(acc, first) ==
    IF first.ok THEN Done(first.db, Append(acc.ret, first.ret))
    ELSE Failed(first.db)

\* CalculationService.calculate_order: the loop over order.items.all().
\* Each line is a transaction of its own and is read when its turn comes;
\* an exception leaves the loop, and the lines before it stay calculated.
\* acc is the outcome of the turns made so far.
RECURSIVE CalculateItems(_, _)
CalculateItems(acc, ls) ==
    IF ls = <<>> \/ ~acc.ok THEN acc
    ELSE CalculateItems(
            Collected(acc, calculate_order_item(acc.db, Head(ls),
                                                Fetch(acc.db, Head(ls)))),
            Tail(ls))

calculate_order(d, o) ==
    LET OfOrder(l) == order_items[l].order = o /\ IsCalculatedWithOrder(l)
    IN CalculateItems(Done(d, <<>>), ItemsWhere({l \in Lines : OfOrder(l)}))

\* the first limit elements of a query
Slice(ls, limit) == SubSeq(ls, 1, IF limit < Len(ls) THEN limit ELSE Len(ls))

\* a faulty variant: the loop ends at the first line that fails
RemainingUnlessFailed(first, ls) == IF first.ok THEN Tail(ls) ELSE <<>>

\* the lines the loop goes on with after the outcome first of its first
\* line: the except clause counts the error and the loop continues
RemainingAfter(first, ls) == Tail(ls)

\* processed += 1 or errors += 1 (lines 166 and 169) after the outcome
\* first of a line
Counted(acc, first) ==
    IF first.ok THEN Done(first.db, <<acc.ret[1] + 1, acc.ret[2]>>)
    ELSE Done(first.db, <<acc.ret[1], acc.ret[2] + 1>>)

RECURSIVE TryItems(_, _, _)

\* the turns of the loop after the outcome first of the first line of ls
TryRemaining(d0, acc, ls, first) ==
    TryItems(d0, Counted(acc, first), RemainingAfter(first, ls))

\* the loop of calculate_uncalculated_items (lines 163-169) over the objects
\* read from the database d0 when the query ran: ret is
\* <<processed, errors>>
TryItems(d0, acc, ls) ==
    IF ls = <<>> THEN acc
    ELSE TryRemaining(d0, acc, ls,
                      calculate_order_item(acc.db, Head(ls),
                                           Fetch(d0, Head(ls))))

\* the query of calculate_uncalculated_items (lines 154-158)
Uncalculated(d, seller_account_id, limit) ==
    LET Selected(l) ==
            /\ orders[order_items[l].order].seller_account = seller_account_id
            /\ ~d.items[l].is_calculated
            /\ order_items[l].item_status = "active"
    IN Slice(ItemsWhere({l \in Lines : Selected(l)}), limit)

\* CalculationService.calculate_uncalculated_items
calculate_uncalculated_items(d, seller_account_id, limit) ==
    TryItems(d, Done(d, <<0, 0>>), Uncalculated(d, seller_account_id, limit))

\* a faulty variant: the query does not look at the status of the line
ItemsOfProductAnyStatus(d, product_id) ==
    LET Selected(l) == d.items[l].product = product_id
    IN ItemsWhere({l \in Lines : Selected(l)})

\* the query of recalculate_for_product (lines 186-189)
ItemsOfProduct(d, product_id) ==
    LET Selected(l) ==
            /\ d.items[l].product = product_id
            /\ order_items[l].item_status = "active"
    IN ItemsWhere({l \in Lines : Selected(l)})

\* count += 1 (line 193) after the outcome first of a line
Recounted(acc, first) ==
    IF first.ok THEN Done(first.db, acc.ret + 1) ELSE Failed(first.db)

\* @transaction.atomic (line 173): when the body raised, the database is
\* the database d the transaction began with
atomic(d, out) == IF out.ok THEN out ELSE Failed(d)

\* the loop of recalculate_for_product (lines 191-194) over the objects
\* read from d0: ret is the count
RECURSIVE RecalculateItems(_, _, _)
RecalculateItems(d0, acc, ls) ==
    IF ls = <<>> \/ ~acc.ok THEN acc
    ELSE RecalculateItems(
            d0,
            Recounted(acc, calculate_order_item(acc.db, Head(ls),
                                                Fetch(d0, Head(ls)))),
            Tail(ls))

\* CalculationService.recalculate_for_product, one transaction around the
\* loop: an exception of any line rolls back every line of the call
recalculate_for_product(d, product_id) ==
    atomic(d, RecalculateItems(d, Done(d, 0), ItemsOfProduct(d, product_id)))

\* Product.update_cost(cost_excl_vat, vat_rate) followed by Product.save:
\* the cost and, when given, the purchase VAT rate are written; nothing of
\* the calculations is touched
update_cost(product, cost_excl_vat, vat_rate) ==
    [product EXCEPT
        !.product_cost_excl_vat = cost_excl_vat,
        !.purchase_vat_rate = IF vat_rate = None THEN @ ELSE vat_rate.val,
        !.has_cost_data = cost_excl_vat # None]

\* Sum('field') over a set of rows
RECURSIVE SumOf(_, _)
SumOf(rows, field) ==
    IF rows = {} THEN 0
    ELSE LET r == CHOOSE x \in rows : TRUE
         IN r[field] + SumOf(rows \ {r}, field)

\* an amount written to a column NUMERIC(14, 2) of PostgreSQL (the engine
\* of settings/base.py): the server rounds it to two decimals, ties away
\* from zero
StoredAmount2(x) == Quantize(x, 1, 1, 1000)

\* the percentage 100 * x / den written to a column NUMERIC(7, 2), in
\* hundredths
StoredPercent2(x, den) == Quantize(x, HUNDRED, den, 1)

\* the rows update_daily_summary aggregates (lines 211-215)
CalcsOfDay(d, seller_account_id, target_date) ==
    {r \in d.calculations :
        /\ orders[order_items[r.order_item].order].seller_account
              = seller_account_id
        /\ orders[order_items[r.order_item].order].order_date = target_date
        /\ order_items[r.order_item].item_status = "active"}

\* a faulty variant: the summary is inserted beside the row of its key
InsertSummary(rows, summary) == rows \cup {summary}

\* DailyProfitSummary.objects.update_or_create(seller_account_id, date,
\* defaults) (lines 249-268): the row of the key takes the defaults, or the
\* row is inserted
UpsertSummary(rows, summary) ==
    {r \in rows : ~(r.seller_account = summary.seller_account
                    /\ r.date = summary.date)} \cup {summary}

\* CalculationService.update_daily_summary, a transaction: the aggregates
\* of the rows of the day, as the columns of the summary store them
update_daily_summary(d, seller_account_id, target_date) ==
    LET calcs == CalcsOfDay(d, seller_account_id, target_date)
        order_count ==
            Cardinality({o \in OrderIds :
                /\ orders[o].seller_account = seller_account_id
                /\ orders[o].order_date = target_date})
        total_revenue_excl_vat == SumOf(calcs, "net_sale_price_excl_vat")
        total_profit == SumOf(calcs, "net_profit")
        average_margin ==
            IF total_revenue_excl_vat > 0
            THEN StoredPercent2(total_profit, total_revenue_excl_vat)
            ELSE 0
        summary ==
            [seller_account |-> seller_account_id, date |-> target_date,
             total_orders |-> order_count,
             total_items |-> Cardinality(calcs),
             total_revenue |->
                StoredAmount2(SumOf(calcs, "net_sale_price")),
             total_revenue_excl_vat |->
                StoredAmount2(total_revenue_excl_vat),
             total_product_cost |->
                StoredAmount2(SumOf(calcs, "product_cost_excl_vat")),
             total_commission |->
                StoredAmount2(SumOf(calcs, "commission_amount_excl_vat")),
             total_cargo_cost |->
                StoredAmount2(SumOf(calcs, "cargo_cost_excl_vat")),
             total_platform_fee |->
                StoredAmount2(SumOf(calcs, "platform_fee_excl_vat")),
             total_vat_payable |->
                StoredAmount2(SumOf(calcs, "net_vat_payable")),
             total_cost |-> StoredAmount2(SumOf(calcs, "total_cost")),
             total_profit |-> StoredAmount2(total_profit),
             average_margin |-> average_margin,
             items_with_cost |->
                Cardinality({r \in calcs : r.has_cost_data}),
             items_without_cost |->
                Cardinality({r \in calcs : ~r.has_cost_data})]
    IN IF Abs(average_margin) >= MarginColumnLimit THEN Failed(d)
       ELSE Done([d EXCEPT !.daily_summaries = UpsertSummary(@, summary)],
                 summary)

\* Sum('order_item__quantity') over a set of rows
RECURSIVE SumOfQuantity(_)
SumOfQuantity(rows) ==
    IF rows = {} THEN 0
    ELSE LET r == CHOOSE x \in rows : TRUE
         IN order_items[r.order_item].quantity + SumOfQuantity(rows \ {r})

\* the day of timezone.now() (line 328): the order of date 1 is older than
\* thirty days, the order of date 2 is not
Today == 32

\* the rows update_product_summary aggregates (lines 315-318)
CalcsOfProduct(d, product_id) ==
    {r \in d.calculations :
        /\ d.items[r.order_item].product = product_id
        /\ order_items[r.order_item].item_status = "active"}

\* a faulty variant: a product without profit counts as profitable
IsNotLosing(total_profit) == total_profit >= 0

\* 'is_profitable': total_profit > 0 (line 360)
SummaryIsProfitable(total_profit) == total_profit > 0

\* ProductProfitSummary.objects.update_or_create(product_id, defaults)
\* (lines 351-364): the row of the product takes the defaults, or the row
\* is inserted
UpsertProductSummary(rows, summary) ==
    {r \in rows : r.product # summary.product} \cup {summary}

\* CalculationService.update_product_summary, a transaction:
\* Product.objects.get raises for a product that does not exist; the
\* amounts are stored in columns of two decimals
update_product_summary(d, product_id) ==
    LET calcs == CalcsOfProduct(d, product_id)
        last_30 == {r \in calcs :
                       orders[order_items[r.order_item].order].order_date
                          >= Today - 30}
        total_qty == SumOfQuantity(calcs)
        total_profit == SumOf(calcs, "net_profit")
        total_revenue == SumOf(calcs, "net_sale_price_excl_vat")
        avg_profit_per_item ==
            IF total_qty > 0 THEN Quantize(total_profit, 1, total_qty, 1000)
            ELSE 0
        avg_margin ==
            IF total_revenue > 0 THEN StoredPercent2(total_profit, total_revenue)
            ELSE 0
        summary ==
            [product |-> product_id,
             total_quantity_sold |-> total_qty,
             total_revenue |-> StoredAmount2(total_revenue),
             total_cost |-> StoredAmount2(SumOf(calcs, "total_cost")),
             total_profit |-> StoredAmount2(total_profit),
             average_profit_per_item |-> avg_profit_per_item,
             average_margin |-> avg_margin,
             is_profitable |-> SummaryIsProfitable(total_profit),
             last_30_days_quantity |-> SumOfQuantity(last_30),
             last_30_days_profit |->
                StoredAmount2(SumOf(last_30, "net_profit"))]
    IN IF ~d.products[product_id].exists THEN Failed(d)
       ELSE IF Abs(avg_margin) >= MarginColumnLimit THEN Failed(d)
       ELSE Done([d EXCEPT !.product_summaries =
                              UpsertProductSummary(@, summary)],
                 summary)

----------------------------------------------------------------------------
(* A caller of calculate_for_order_item with a line that has no product.   *)
(* args is the line, result what the call returned.                        *)

\* the largest charge of a line, in hundredths
MaxCharge == 300

\* lines with every cargo cost from 0.00 to the largest charge, and the
\* platform service fees in the opposite order
ChargedItems ==
    {OrderItem(1, "A", "active", 12000000, 1, 0, 1200,
               c * 1000, (MaxCharge - c) * 1000, 20) : c \in 0 .. MaxCharge}

InitCharges ==
    /\ pc = "ready"
    /\ args \in ChargedItems
    /\ result = NoResult
    /\ prev = NoCall
    /\ db = NoDatabase
    /\ last = NoOperation
    /\ txn = NoTransactions

\* the caller invokes calculate_for_order_item with the line args
CalculateForOrderItem ==
    /\ pc = "ready"
    /\ result' = calculate_for_order_item(args, Absent)
    /\ pc' = "returned"
    /\ UNCHANGED <<args, prev, db, last, txn>>

SpecCharges == InitCharges /\ [][CalculateForOrderItem]_vars

----------------------------------------------------------------------------
(* The service and the product endpoints as a state machine over db.  last *)
(* records the operation that ran last: its name, its arguments, whether   *)
(* it returned, what it returned, and the number n of operations so far.   *)

\* the largest limit passed to calculate_uncalculated_items
MaxLimit == 2
\* the number of operations of a behaviour
MaxOperations == 4

\* 73.00
NewCosts == {7300000}
\* the purchase VAT rate of a cost update: left as it is, or 20 %
NewVatRates == {None, Num(2000)}

\* nothing imported is linked or calculated yet, and no product exists
EmptyDb ==
    [items |-> [l \in Lines |-> [product |-> NoProduct,
                                 is_calculated |-> FALSE]],
     products |-> [p \in ProductIds |-> Absent],
     calculations |-> {},
     daily_summaries |-> {},
     product_summaries |-> {}]

\* the database after the import of the lines, which links every line
\* (sync_service.py line 505)
RECURSIVE LinkAll(_, _)
LinkAll(d, ls) ==
    IF ls = <<>> THEN d
    ELSE LinkAll(link_product(d, Head(ls)).db, Tail(ls))

SyncedDb == LinkAll(EmptyDb, ItemsWhere(Lines))

\* one round of what Celery Beat starts for every seller after the import
\* (integrations/tasks.py lines 56 and 107): calculate_uncalculated_items,
\* then the daily summaries
RECURSIVE CalculateForSellers(_, _)
CalculateForSellers(d, sellers) ==
    IF sellers = {} THEN d
    ELSE LET s == CHOOSE x \in sellers : TRUE
         IN CalculateForSellers(
                calculate_uncalculated_items(d, s, MaxLimit).db,
                sellers \ {s})

RECURSIVE SummariseDays(_, _)
SummariseDays(d, os) ==
    IF os = {} THEN d
    ELSE LET o == CHOOSE x \in os : TRUE
         IN SummariseDays(
                update_daily_summary(d, orders[o].seller_account,
                                     orders[o].order_date).db,
                os \ {o})

\* the database after the import and the first round of the scheduled tasks
SteadyDb == SummariseDays(CalculateForSellers(SyncedDb, Sellers), OrderIds)

Ran(op, arg, out) ==
    [op |-> op, arg |-> arg, ok |-> out.ok, ret |-> out.ret,
     n |-> last.n + 1]

InitService ==
    /\ pc = "idle"
    /\ args = <<>>
    /\ result = NoResult
    /\ prev = NoCall
    /\ db \in {EmptyDb, SyncedDb, SteadyDb}
    /\ last = NoOperation
    /\ txn = NoTransactions

\* the operation op was called with arg and its outcome is out: the
\* database is as the operation left it
Commit(op, arg, out) ==
    /\ db' = out.db
    /\ last' = Ran(op, arg, out)
    /\ UNCHANGED <<pc, args, result, prev, txn>>

CalculateOrderItem(l) ==
    /\ last.n < MaxOperations
    /\ Commit("calculate_order_item", <<l>>,
           calculate_order_item(db, l, Fetch(db, l)))

CalculateOrder(o) ==
    /\ last.n < MaxOperations
    /\ Commit("calculate_order", <<o>>, calculate_order(db, o))

CalculateUncalculatedItems(seller_account_id, limit) ==
    /\ last.n < MaxOperations
    /\ Commit("calculate_uncalculated_items", <<seller_account_id, limit>>,
           calculate_uncalculated_items(db, seller_account_id, limit))

\* RecalculateProductView.post finds the product before it calls the service
RecalculateForProduct(product_id) ==
    /\ last.n < MaxOperations
    /\ db.products[product_id].exists
    /\ Commit("recalculate_for_product", <<product_id>>,
              recalculate_for_product(db, product_id))

UpdateDailySummary(seller_account_id, target_date) ==
    /\ last.n < MaxOperations
    /\ Commit("update_daily_summary", <<seller_account_id, target_date>>,
           update_daily_summary(db, seller_account_id, target_date))

UpdateProductSummary(product_id) ==
    /\ last.n < MaxOperations
    /\ Commit("update_product_summary", <<product_id>>,
           update_product_summary(db, product_id))

\* ProductCostUpdateView.patch and a row of process_bulk_cost_upload: the
\* cost of an existing product is entered or corrected
UpdateCost(product_id, cost_excl_vat, vat_rate) ==
    /\ last.n < MaxOperations
    /\ db.products[product_id].exists
    /\ db' = [db EXCEPT !.products[product_id] =
                            update_cost(@, cost_excl_vat, vat_rate)]
    /\ last' = Ran("update_cost", <<product_id>>, Done(db', <<>>))
    /\ UNCHANGED <<pc, args, result, prev, txn>>

NextService ==
    \/ \E l \in Lines : CalculateOrderItem(l)
    \/ \E o \in OrderIds : CalculateOrder(o)
    \/ \E s \in Sellers, limit \in 1 .. MaxLimit :
          CalculateUncalculatedItems(s, limit)
    \/ \E p \in ProductIds : RecalculateForProduct(p)
    \/ \E o \in OrderIds :
          UpdateDailySummary(orders[o].seller_account, orders[o].order_date)
    \/ \E p \in ProductIds : UpdateProductSummary(p)
    \/ \E p \in ProductIds, c \in NumsOf(NewCosts), v \in NewVatRates :
          UpdateCost(p, c, v)

SpecService == InitService /\ [][NextService]_vars

----------------------------------------------------------------------------
(* The service called from several workers at once.  The database is       *)
(* PostgreSQL (settings/base.py) at its default isolation level, READ      *)
(* COMMITTED: db is the committed database, every statement reads it as    *)
(* it is when the statement runs, the writes of an open transaction are     *)
(* seen by that transaction alone, and a write to a row waits while        *)
(* another open transaction holds a write to the same row.                 *)

MaxCalls == 3
MaxCostUpdates == 1

NotStarted == [seq |-> 0, count |-> 0, res |-> NoResult, ended |-> "none", began |-> <<>>]
NoSummary == [seq |-> 0, row |-> <<>>, ended |-> "none"]
NoCalls == [op |-> "none", n |-> 0, costs |-> 0, calc |-> [l \in Lines |-> NotStarted], summary |-> [o \in OrderIds |-> NoSummary]]

\* what an observer of the committed database d sees of line l: its
\* stored calculations, its flag and its product link
LineState(d, l) == [rows |-> {r \in d.calculations : r.order_item = l}, item |-> d.items[l]]

\* a faulty variant: every statement is committed as it runs
Autocommit(committed, written) == written

\* @transaction.atomic: the committed database after a statement of an
\* open transaction has run, written being the database with the writes
\* of the transaction applied
AfterStatement(committed, written) == committed

IsCalculation(t) == t.op = "calculate_order_item"
IsSummary(t) == t.op = "update_daily_summary"

\* the rows an open transaction t holds a write to
HoldsProduct(t, p) == IsCalculation(t) /\ "product" \in t.writes /\ t.p = p
HoldsItem(t, l) == IsCalculation(t) /\ t.l = l /\ t.writes \cap {"link", "flag"} # {}
HoldsCalc(t, l) == IsCalculation(t) /\ t.l = l /\ "calc" \in t.writes
HoldsSummary(t, o) == IsSummary(t) /\ t.o = o /\ "summary" \in t.writes

\* the writes of transaction t applied to the database d
WriteProduct(d, t) == IF "product" \in t.writes THEN [d EXCEPT !.products[t.p] = t.row] ELSE d
WriteLink(d, t) == IF "link" \in t.writes THEN [d EXCEPT !.items[t.l].product = t.p] ELSE d
WriteCalc(d, t) == IF "calc" \in t.writes THEN [d EXCEPT !.calculations = update_or_create(@, t.l, Defaults(t.res))] ELSE d
WriteFlag(d, t) == IF "flag" \in t.writes THEN [d EXCEPT !.items[t.l].is_calculated = TRUE] ELSE d
Apply(d, t) == WriteFlag(WriteCalc(WriteLink(WriteProduct(d, t), t), t), t)

\* the call seq for line l has ended: the history keeps the end of the
\* call of the line that started last
Ended(calc, l, seq, how) == IF calc[l].seq = seq THEN [calc EXCEPT ![l].ended = how] ELSE calc

\* the caller fetches the line and calls calculate_order_item(order_item):
\* the transaction opens (line 35)
BeginCalculation(w, l) ==
    /\ txn[w] = Idle
    /\ last.n < MaxCalls
    /\ txn' = [txn EXCEPT ![w] =
                  [op |-> "calculate_order_item", pc |-> "link", l |-> l,
                   seq |-> last.n + 1, item |-> Fetch(db, l),
                   res |-> NoResult, writes |-> {}, p |-> NoProduct,
                   row |-> Absent]]
    /\ last' = [last EXCEPT
                  !.n = @ + 1,
                  !.calc[l] = [seq |-> last.n + 1, count |-> @.count + 1,
                               res |-> NoResult, ended |-> "running",
                               began |-> LineState(db, l)]]
    /\ UNCHANGED <<pc, args, result, prev, db>>

\* the transaction t after link_product has written what linked holds and
\* the result res has been computed
AfterLink(t, p, linked, res) ==
    [t EXCEPT
        !.pc = "upsert",
        !.res = res,
        !.p = p,
        !.row = linked.db.products[p],
        !.writes = IF t.item.id # NoProduct THEN {}
                   ELSE IF linked.db.products[p] # db.products[p]
                        THEN {"product", "link"}
                        ELSE {"link"}]

\* the history keeps the result of the call of the line that started last
Computed(calc, l, seq, res) == IF calc[l].seq = seq THEN [calc EXCEPT ![l].res = res] ELSE calc

LinkAndCalculate(w, t, p, linked, res) ==
    /\ \A v \in Workers \ {w} :
          t.item.id = NoProduct
          => /\ ~HoldsItem(txn[v], t.l)
             /\ linked.db.products[p] # db.products[p]
                => ~HoldsProduct(txn[v], p)
    /\ IF res.status = "ok"
       THEN /\ txn' = [txn EXCEPT ![w] = AfterLink(t, p, linked, res)]
            /\ db' = AfterStatement(db, Apply(db, txn'[w]))
            /\ last' = [last EXCEPT !.calc = Computed(@, t.l, t.seq, res)]
       ELSE /\ txn' = [txn EXCEPT ![w] = Idle]
            /\ db' = db
            /\ last' = [last EXCEPT !.calc = Ended(@, t.l, t.seq, "aborted")]
    /\ UNCHANGED <<pc, args, result, prev>>

LinkOf(w, t, linked) ==
    LinkAndCalculate(w, t, linked.db.items[t.l].product, linked,
                     calculate_for_order_item(order_items[t.l],
                                              ProductOfItem(t.item, linked)))

\* lines 46-50: the product is linked when the object holds none, and the
\* result is computed from the object and its product
Link(w) ==
    /\ IsCalculation(txn[w])
    /\ txn[w].pc = "link"
    /\ LinkOf(w, txn[w], LinkIfNeeded(db, txn[w].l, txn[w].item))

\* lines 53-113: update_or_create locks or inserts the row of the line; a
\* value that does not fit its column raises and the transaction is
\* rolled back
Upsert(w) ==
    /\ IsCalculation(txn[w])
    /\ txn[w].pc = "upsert"
    /\ \A v \in Workers \ {w} : ~HoldsCalc(txn[v], txn[w].l)
    /\ IF Storable(txn[w].res)
       THEN /\ txn' = [txn EXCEPT ![w].pc = "flag", ![w].writes = @ \cup {"calc"}]
            /\ db' = AfterStatement(db, Apply(db, txn'[w]))
            /\ last' = last
       ELSE /\ txn' = [txn EXCEPT ![w] = Idle]
            /\ db' = db
            /\ last' = [last EXCEPT !.calc = Ended(@, txn[w].l, txn[w].seq, "aborted")]
    /\ UNCHANGED <<pc, args, result, prev>>

\* lines 116-118: order_item.save(update_fields=['is_calculated'])
SaveFlag(w) ==
    /\ IsCalculation(txn[w])
    /\ txn[w].pc = "flag"
    /\ \A v \in Workers \ {w} : ~HoldsItem(txn[v], txn[w].l)
    /\ txn' = [txn EXCEPT ![w].pc = "commit", ![w].writes = @ \cup {"flag"}]
    /\ db' = AfterStatement(db, Apply(db, txn'[w]))
    /\ UNCHANGED <<pc, args, result, prev, last>>

\* the call returns and its transaction commits
CommitCalculation(w) ==
    /\ IsCalculation(txn[w])
    /\ txn[w].pc = "commit"
    /\ db' = Apply(db, txn[w])
    /\ txn' = [txn EXCEPT ![w] = Idle]
    /\ last' = [last EXCEPT !.calc = Ended(@, txn[w].l, txn[w].seq, "committed")]
    /\ UNCHANGED <<pc, args, result, prev>>

\* update_daily_summary has read the rows of the day: out is what the
\* call would store from them
Aggregated(w, o, out) ==
    /\ txn' = [txn EXCEPT ![w] =
                  [op |-> "update_daily_summary", pc |-> "upsert", o |-> o,
                   seq |-> last.n + 1, ok |-> out.ok, summary |-> out.ret,
                   writes |-> {}]]
    /\ last' = [last EXCEPT
                  !.n = @ + 1,
                  !.summary[o] = [seq |-> last.n + 1, row |-> out.ret,
                                  ended |-> "running"]]

\* lines 198-237: the transaction opens and the aggregates of the day of
\* order o are read
Aggregate(w, o) ==
    /\ txn[w] = Idle
    /\ last.n < MaxCalls
    /\ Aggregated(w, o, update_daily_summary(db, orders[o].seller_account,
                                             orders[o].order_date))
    /\ UNCHANGED <<pc, args, result, prev, db>>

SummaryEnded(summary, o, seq, how) == IF summary[o].seq = seq THEN [summary EXCEPT ![o].ended = how] ELSE summary

\* lines 249-268: update_or_create locks or inserts the row of the key
UpsertDailySummary(w) ==
    /\ IsSummary(txn[w])
    /\ txn[w].pc = "upsert"
    /\ \A v \in Workers \ {w} : ~HoldsSummary(txn[v], txn[w].o)
    /\ IF txn[w].ok
       THEN /\ txn' = [txn EXCEPT ![w].pc = "commit", ![w].writes = {"summary"}]
            /\ last' = last
       ELSE /\ txn' = [txn EXCEPT ![w] = Idle]
            /\ last' = [last EXCEPT !.summary = SummaryEnded(@, txn[w].o, txn[w].seq, "aborted")]
    /\ UNCHANGED <<pc, args, result, prev, db>>

CommitSummary(w) ==
    /\ IsSummary(txn[w])
    /\ txn[w].pc = "commit"
    /\ db' = [db EXCEPT !.daily_summaries = UpsertSummary(@, txn[w].summary)]
    /\ txn' = [txn EXCEPT ![w] = Idle]
    /\ last' = [last EXCEPT !.summary = SummaryEnded(@, txn[w].o, txn[w].seq, "committed")]
    /\ UNCHANGED <<pc, args, result, prev>>

\* a cost is entered for a product while the workers run: update_cost and
\* save, one statement committed on its own
SaveCost(product_id) ==
    /\ last.costs < MaxCostUpdates
    /\ db.products[product_id].exists
    /\ \A v \in Workers : ~HoldsProduct(txn[v], product_id)
    /\ db' = [db EXCEPT !.products[product_id] = update_cost(@, Num(7300000), None)]
    /\ last' = [last EXCEPT !.costs = @ + 1]
    /\ UNCHANGED <<pc, args, result, prev, txn>>

InitConcurrent ==
    /\ pc = "idle"
    /\ args = <<>>
    /\ result = NoResult
    /\ prev = NoCall
    /\ db \in {EmptyDb, SyncedDb, SteadyDb}
    /\ last = NoCalls
    /\ txn = NoTransactions

NextConcurrent ==
    \/ \E w \in Workers, l \in Lines : BeginCalculation(w, l)
    \/ \E w \in Workers : Link(w)
    \/ \E w \in Workers : Upsert(w)
    \/ \E w \in Workers : SaveFlag(w)
    \/ \E w \in Workers : CommitCalculation(w)
    \/ \E w \in Workers, o \in OrderIds : Aggregate(w, o)
    \/ \E w \in Workers : UpsertDailySummary(w)
    \/ \E w \in Workers : CommitSummary(w)
    \/ \E p \in ProductIds : SaveCost(p)

SpecConcurrent == InitConcurrent /\ [][NextConcurrent]_vars

----------------------------------------------------------------------------
(* Properties of calculate.                                                *)

\* the call has returned a CalculationResult
Returned == pc = "returned" /\ result.status = "ok"

HasNote(res, text) ==
    \E i \in 1 .. Len(res.calculation_notes) :
        res.calculation_notes[i].text = text

\* round-half-up of x * m / den to 4 decimals (round4) and to 2 decimals of
\* a value in hundredths (round2)
round4(x, m, den) == Quantize(x, m, den, 10)
round2(x, m, den) == Quantize(x, m, den, 1)

\* C1: the commission is computed on the VAT-excluded net sale price:
\* commission_amount_excl_vat = round4(net_sale_price_excl_vat *
\* commission_rate / 100), commission_vat = round4(commission_amount_excl_vat
\* * commission_vat_rate / 100), commission_total is their sum; the rates
\* are the ones passed (20 % for the commission VAT when it is None).
C1_CommissionOnVatExcludedPrice ==
    Returned =>
        /\ result.commission_rate = args.commission_rate.val
        /\ result.commission_vat_rate =
              (IF args.commission_vat_rate.kind = "none" THEN 2000
               ELSE args.commission_vat_rate.val)
        /\ result.commission_amount_excl_vat =
              round4(result.net_sale_price_excl_vat, result.commission_rate, 10000)
        /\ result.commission_vat =
              round4(result.commission_amount_excl_vat,
                     result.commission_vat_rate, 10000)
        /\ result.commission_total =
              result.commission_amount_excl_vat + result.commission_vat

\* a call whose commission on the gross price would have been different
C1_Witness ==
    /\ Returned
    /\ result.commission_amount_excl_vat > 0
    /\ result.commission_vat > 0
    /\ result.commission_amount_excl_vat #
          round4(result.net_sale_price, result.commission_rate, 10000)

\* C2: VAT extraction round trip: net_sale_price_excl_vat + sales_vat =
\* net_sale_price exactly, with net_sale_price_excl_vat =
\* round4(net_sale_price / (1 + sales_vat_rate / 100)).
C2_VatExtractionRoundTrip ==
    Returned =>
        /\ result.sales_vat_rate = args.sales_vat_rate.val
        /\ result.net_sale_price_excl_vat =
              round4(result.net_sale_price, 10000, 10000 + result.sales_vat_rate)
        /\ result.net_sale_price_excl_vat + result.sales_vat
              = result.net_sale_price

\* a call in which the division by the VAT divisor is not exact at 4 decimals
C2_Witness ==
    /\ Returned
    /\ result.sales_vat > 0
    /\ MulDiv(result.net_sale_price, 10000,
              (10000 + result.sales_vat_rate) * 10)[2] # 0

\* C3: net_vat_payable = round4(sales_vat - round4(purchase_vat +
\* commission_vat + cargo_vat + platform_fee_vat)) and is never clamped:
\* when output VAT is below input VAT it is negative and the refund note is
\* present; the note is absent when net_vat_payable >= 0.
C3_VatSettlementNotClamped ==
    Returned =>
        /\ result.total_output_vat = result.sales_vat
        /\ result.total_input_vat =
              round4(result.purchase_vat + result.commission_vat
                     + result.cargo_vat + result.platform_fee_vat, 1, 1)
        /\ result.net_vat_payable =
              round4(result.sales_vat - result.total_input_vat, 1, 1)
        /\ (result.total_output_vat < result.total_input_vat =>
              /\ result.net_vat_payable < 0
              /\ \E i \in 1 .. Len(result.calculation_notes) :
                    result.calculation_notes[i] =
                        VatRefundNote(-result.net_vat_payable))
        /\ (result.net_vat_payable >= 0 => ~HasNote(result, "KDV iade durumu"))

\* a call that ends in a refund position
C3_Witness ==
    /\ Returned
    /\ result.total_output_vat < result.total_input_vat
    /\ result.total_output_vat > 0
    /\ HasNote(result, "KDV iade durumu")

\* C4: is_profitable holds exactly when net_profit > 0; a net profit of 0
\* is not profitable, a net profit of 0.0001 is.
C4_ProfitableIffPositive ==
    Returned =>
        /\ result.is_profitable <=> result.net_profit > 0
        /\ (result.net_profit = 0 => ~result.is_profitable)
        /\ (result.net_profit = 10 => result.is_profitable)

\* the same line calculated at two costs: once with a net profit of exactly
\* 0, once with a net profit of 0.0001
C4_Witness ==
    /\ Returned
    /\ prev.made
    /\ prev.result.status = "ok"
    /\ prev.result.net_profit = 0 /\ ~prev.result.is_profitable
    /\ result.net_profit = 10 /\ result.is_profitable

\* C5: has_cost_data holds exactly when a product cost was supplied; with
\* None the call returns normally, product_cost_excl_vat and purchase_vat
\* are 0 in the result and in its totals and the missing-cost note is
\* present; with a supplied cost (0 included) the note is absent.
C5_MissingCostFlag ==
    pc = "returned" =>
        /\ result.status = "ok"
        /\ result.has_cost_data <=> args.product_cost_excl_vat.kind # "none"
        /\ (args.product_cost_excl_vat.kind = "none" =>
              /\ result.product_cost_excl_vat = 0
              /\ result.purchase_vat = 0
              /\ result.product_cost_incl_vat = 0
              /\ result.total_input_vat =
                    result.commission_vat + result.cargo_vat
                    + result.platform_fee_vat
              /\ result.total_cost =
                    round4(result.net_vat_payable
                           + result.commission_amount_excl_vat
                           + result.cargo_cost_excl_vat
                           + result.platform_fee_excl_vat
                           + result.withholding_tax, 1, 1)
              /\ HasNote(result, MissingCostNote.text))
        /\ (args.product_cost_excl_vat.kind = "num" =>
              /\ result.product_cost_excl_vat = args.product_cost_excl_vat.val
              /\ ~HasNote(result, MissingCostNote.text))

\* a call without a product cost
C5_Witness ==
    /\ Returned
    /\ args.product_cost_excl_vat = None
    /\ ~result.has_cost_data
    /\ HasNote(result, MissingCostNote.text)
    /\ result.net_sale_price > 0

\* C6: profit_margin_percent = round2(net_profit / net_sale_price_excl_vat
\* * 100), round-half-up, when net_sale_price_excl_vat > 0 and exactly 0
\* otherwise; the call does not fail for zero or negative revenue.
C6_ProfitMargin ==
    pc = "returned" =>
        /\ result.status = "ok"
        /\ IF result.net_sale_price_excl_vat > 0
           THEN /\ result.profit_margin_percent =
                     round2(result.net_profit, 10000,
                            result.net_sale_price_excl_vat)
                \* nearest hundredth, a tie goes away from zero (checked
                \* directly where the products fit)
                /\ (Abs(result.net_profit) <= 100000 =>
                      LET exact == result.net_profit * 10000
                          got == result.profit_margin_percent
                                   * result.net_sale_price_excl_vat
                      IN /\ 2 * Abs(got - exact)
                              <= result.net_sale_price_excl_vat
                         /\ (2 * Abs(got - exact)
                               = result.net_sale_price_excl_vat
                             => Abs(got) > Abs(exact)))
           ELSE result.profit_margin_percent = 0

\* the margin is an exact tie at the third decimal
MarginTie(res) ==
    /\ res.status = "ok"
    /\ res.net_sale_price_excl_vat > 0
    /\ 2 * MulDiv(Abs(res.net_profit), 10000, res.net_sale_price_excl_vat)[2]
         = res.net_sale_price_excl_vat

\* the same line calculated at two costs, both margins exact ties: a loss
\* whose margin is rounded away from zero and a profit whose margin is
\* rounded up
C6_Witness ==
    /\ Returned
    /\ prev.made
    /\ MarginTie(prev.result) /\ prev.result.net_profit < 0
    /\ MarginTie(result) /\ result.net_profit > 0
    /\ result.profit_margin_percent =
         MulDiv(result.net_profit, 10000, result.net_sale_price_excl_vat)[1] + 1
    /\ prev.result.profit_margin_percent =
         -(MulDiv(-prev.result.net_profit, 10000,
                  prev.result.net_sale_price_excl_vat)[1] + 1)

\* C7: a malformed numeric argument (a string that is not a number) makes
\* calculate fail with a conversion error; it is never replaced by 0 or by
\* a default rate.
C7_MalformedInputFails ==
    (pc = "returned" /\ \E f \in DOMAIN args : args[f].kind = "str")
        => result.status = "raised"

\* the two calls of the caller differ only in the product cost, both costs
\* are numbers
CostPair ==
    /\ Returned
    /\ prev.made
    /\ prev.result.status = "ok"
    /\ prev.args.product_cost_excl_vat.kind = "num"
    /\ args.product_cost_excl_vat.kind = "num"
    /\ args = [prev.args EXCEPT
                 !.product_cost_excl_vat = args.product_cost_excl_vat]

\* the lower-cost and the higher-cost call of a pair
LowCall ==
    IF prev.args.product_cost_excl_vat.val < args.product_cost_excl_vat.val
    THEN [cost |-> prev.args.product_cost_excl_vat.val, res |-> prev.result]
    ELSE [cost |-> args.product_cost_excl_vat.val, res |-> result]
HighCall ==
    IF prev.args.product_cost_excl_vat.val < args.product_cost_excl_vat.val
    THEN [cost |-> args.product_cost_excl_vat.val, res |-> result]
    ELSE [cost |-> prev.args.product_cost_excl_vat.val, res |-> prev.result]

\* C8 as stated: for two calls that differ only in the product cost, c1 <
\* c2 at least 0.0001 apart, any purchase VAT rate in 0..100, the net
\* profit at c2 is strictly less than at c1.
C8_StrictMonotonicity ==
    (CostPair /\ HighCall.cost - LowCall.cost >= 10)
        => HighCall.res.net_profit < LowCall.res.net_profit

\* C8 as amended: for two calls that differ only in the product cost, both
\* costs with at most 4 decimals, c1 < c2, the net profit at c2 is not
\* greater than at c1, and it is strictly less when
\* (c2 - c1) * (1 - purchase_vat_rate / 100) >= 0.0001.
C8_WeakMonotonicity ==
    (/\ CostPair
     /\ LowCall.cost % 10 = 0
     /\ HighCall.cost % 10 = 0)
        => /\ HighCall.res.net_profit <= LowCall.res.net_profit
           /\ LET keep == 10000 - result.purchase_vat_rate
              IN (/\ keep > 0
                  /\ HighCall.cost - LowCall.cost
                        >= (100000 + keep - 1) \div keep)
                 => HighCall.res.net_profit < LowCall.res.net_profit

\* a pair of 4-decimal costs 0.0001 apart whose net profits are equal, the
\* purchase VAT absorbing the whole step
C8_Witness ==
    /\ CostPair
    /\ LowCall.cost % 10 = 0
    /\ HighCall.cost = LowCall.cost + 10
    /\ HighCall.res.net_profit = LowCall.res.net_profit
    /\ result.purchase_vat_rate < 10000

\* the arguments of the reference scenario: unit_price 120.00, quantity 1,
\* discount 0, product cost 50.00, purchase VAT 20 %, sales VAT 20 %,
\* commission 12 %, commission VAT 20 %, cargo 10, platform fee 5
ReferenceArgs ==
    Args(Num(12000000), Num(1), Num(0), Num(5000000), Num(2000), Num(2000),
         Num(1200), Num(1000000), Num(500000), Num(0), Num(2000), Num(2000),
         Num(2000))

\* C9: the reference scenario returns net_sale_price_excl_vat 100.0000,
\* sales_vat 20.0000, purchase_vat 10.0000, commission_amount_excl_vat
\* 12.0000, commission_vat 2.4000, cargo_vat 2.0000, platform_fee_vat
\* 1.0000, total_input_vat 15.4000, net_vat_payable 4.6000, total_cost
\* 81.6000, net_profit 18.4000, profit_margin_percent 18.40, is_profitable.
C9_ReferenceScenario ==
    (pc = "returned" /\ args = ReferenceArgs) =>
        /\ result.status = "ok"
        /\ result.net_sale_price = 12000000
        /\ result.net_sale_price_excl_vat = 10000000
        /\ result.sales_vat = 2000000
        /\ result.purchase_vat = 1000000
        /\ result.commission_amount_excl_vat = 1200000
        /\ result.commission_vat = 240000
        /\ result.cargo_vat = 200000
        /\ result.platform_fee_vat = 100000
        /\ result.total_input_vat = 1540000
        /\ result.net_vat_payable = 460000
        /\ result.total_cost = 8160000
        /\ result.net_profit = 1840000
        /\ result.profit_margin_percent = 1840
        /\ result.is_profitable

\* the reference scenario has been calculated
C9_Witness == pc = "returned" /\ args = ReferenceArgs /\ result.status = "ok"

\* C10: for every unit_price and every quantity >= 0, quantity 0 included,
\* gross_sale_price = round4(unit_price * quantity) and net_sale_price =
\* round4(gross_sale_price - discount_amount); a zero-quantity line has
\* gross_sale_price 0.
C10_GrossIsPriceTimesQuantity ==
    (pc = "returned" /\ args.quantity.kind = "num") =>
        /\ result.status = "ok"
        /\ result.gross_sale_price =
              round4(args.unit_price.val, args.quantity.val, 1)
        /\ result.net_sale_price =
              round4(result.gross_sale_price - args.discount_amount.val, 1, 1)
        /\ (args.quantity.val = 0 => result.gross_sale_price = 0)

----------------------------------------------------------------------------
(* Properties of the calculation service.                                  *)

\* the stored calculations of a line
RowsOf(d, l) == {r \in d.calculations : r.order_item = l}

\* what calculate_for_order_item returns for line l in the database d
FreshResult(d, l) == calculate_for_order_item(order_items[l], Fetch(d, l).product)

\* every field of the result res is the value of the row r
RowIsResult(r, res) == \A f \in DOMAIN res \ {"status"} : r[f] = res[f]

\* the last operation was op and it returned
Returned_(op) == last.op = op /\ last.ok

\* C11: every line has at most one stored OrderItemCalculation, and when
\* calculate_order_item has returned for a line, the one row of the line
\* carries in every field the result of the calculation just made: nothing
\* of a previous result survives and no second row exists.
C11_OneRowOverwritten ==
    /\ \A l \in Lines : Cardinality(RowsOf(db, l)) <= 1
    /\ Returned_("calculate_order_item") =>
          /\ RowsOf(db, last.arg[1]) # {}
          /\ \A r \in RowsOf(db, last.arg[1]) :
                RowIsResult(r, FreshResult(db, last.arg[1]))

\* line 2 has been calculated twice, without and then with the cost of its
\* product: no other line of the product was ever linked, so the product
\* was created by the first calculation of line 2
C11_Witness ==
    /\ Returned_("calculate_order_item") /\ last.arg = <<2>>
    /\ db.items[1].product = NoProduct /\ db.items[3].product = NoProduct
    /\ \E r \in RowsOf(db, 2) : r.has_cost_data /\ r.net_profit = 0

LinesOfOrder(o) == {l \in Lines : order_items[l].order = o}

\* a revenue-eligible line: active, in an order that is neither cancelled
\* nor returned nor undelivered
Eligible(l) ==
    /\ order_items[l].item_status = "active"
    /\ orders[order_items[l].order].status
          \in {"Created", "Picking", "Invoiced", "Shipped", "Delivered"}

\* the elements of a sequence
Range(seq) == {seq[i] : i \in 1 .. Len(seq)}

\* C13: when calculate_order has returned, it has returned one result for
\* each revenue-eligible line of the order and for no other line, and each
\* of these lines has a stored calculation and is_calculated set; and
\* whatever calculate_order does from the current database, it leaves the
\* stored calculations and the flag of every line of the order that is not
\* revenue-eligible as they are.
C13_OnlyEligibleLines ==
    /\ Returned_("calculate_order") =>
          LET eligible == {l \in LinesOfOrder(last.arg[1]) : Eligible(l)}
          IN /\ Range(last.ret) = eligible
             /\ Len(last.ret) = Cardinality(eligible)
             /\ \A l \in eligible :
                   RowsOf(db, l) # {} /\ db.items[l].is_calculated
    /\ \A o \in OrderIds :
          \A l \in LinesOfOrder(o) :
             ~Eligible(l) =>
                /\ RowsOf(calculate_order(db, o).db, l) = RowsOf(db, l)
                /\ calculate_order(db, o).db.items[l] = db.items[l]

\* calculate_order has returned the two active lines of the delivered
\* order, and its returned line has no calculation
C13_Witness ==
    /\ Returned_("calculate_order") /\ last.arg = <<1>>
    /\ last.ret = <<1, 2>>
    /\ RowsOf(db, 3) = {} /\ ~db.items[3].is_calculated

\* the not-yet-calculated active lines of a seller in the database d
Candidates(d, seller) ==
    {l \in Lines :
        /\ orders[order_items[l].order].seller_account = seller
        /\ ~d.items[l].is_calculated
        /\ order_items[l].item_status = "active"}

\* the first limit of them
Attempted(d, seller, limit) ==
    {l \in Candidates(d, seller) :
        Cardinality({k \in Candidates(d, seller) : k < l}) < limit}

\* C14: from every database, calculate_uncalculated_items(seller, limit)
\* returns (processed, errors) without raising; the lines it attempts are at
\* most limit not-yet-calculated active lines of the seller and
\* processed + errors is their number; an attempted line whose calculation
\* succeeds is processed, whatever happened to the lines before it, and
\* ends with a stored result and is_calculated set; the processed lines are
\* counted by processed; every other line, an errored one included, keeps
\* its stored calculations and its flag.
C14_BatchContinuesPastFailures ==
    \A seller \in Sellers, limit \in 1 .. MaxLimit :
        LET out == calculate_uncalculated_items(db, seller, limit)
            attempted == Attempted(db, seller, limit)
            processed == {l \in attempted : out.db.items[l].is_calculated}
        IN /\ out.ok
           /\ Cardinality(attempted) <= limit
           /\ out.ret[1] + out.ret[2] = Cardinality(attempted)
           /\ out.ret[1] = Cardinality(processed)
           /\ \A l \in attempted :
                 calculate_order_item(db, l, Fetch(db, l)).ok
                    => l \in processed
           /\ \A l \in processed : RowsOf(out.db, l) # {}
           /\ \A l \in Lines \ processed :
                 /\ RowsOf(out.db, l) = RowsOf(db, l)
                 /\ out.db.items[l].is_calculated = db.items[l].is_calculated

\* calculate_uncalculated_items(1, 2) has returned (1, 1): line 1 failed,
\* and line 2, which came after it, is calculated
C14_Witness ==
    /\ Returned_("calculate_uncalculated_items") /\ last.arg = <<1, 2>>
    /\ last.ret = <<1, 1>>
    /\ ~db.items[1].is_calculated /\ RowsOf(db, 1) = {}
    /\ db.items[2].is_calculated /\ RowsOf(db, 2) # {}

\* line l is active and calculated, its stored result is not the result of
\* the line with the cost and the rates its product has now, and a
\* recalculation of the line would succeed
Stale(l) ==
    /\ order_items[l].item_status = "active"
    /\ \E r \in RowsOf(db, l) : ~RowIsResult(r, FreshResult(db, l))
    /\ calculate_order_item(db, l, Fetch(db, l)).ok

\* Nothing that runs without a request changes the database d.  Celery
\* Beat queues the import of every seller every six hours
\* (settings/base.py, CELERY_BEAT_SCHEDULE); the import links every line
\* again, then queues calculate_uncalculated_items, and that task queues the
\* daily summaries (integrations/tasks.py lines 56 and 107).
Quiescent(d) ==
    /\ LinkAll(d, ItemsWhere(Lines)) = d
    /\ \A s \in Sellers, limit \in 1 .. MaxLimit :
          calculate_uncalculated_items(d, s, limit).db = d
    /\ \A o \in OrderIds :
          update_daily_summary(d, orders[o].seller_account,
                               orders[o].order_date).db = d

\* C15: a stored result that the cost of its product has overtaken does not
\* stay for ever unless somebody asks for a recalculation: in a state with
\* such a result some scheduled task still has something to change.  (In a
\* state where it fails, the scheduled tasks repeat without effect and the
\* result stays as it is until a user requests a recalculation.)
C15_RecalculatedWithoutRequest ==
    \A l \in Lines : Stale(l) => ~Quiescent(db)

\* the stored calculations of the active lines of a seller whose order
\* falls on a date
ActiveCalcsOn(seller, date) ==
    {r \in db.calculations :
        /\ order_items[r.order_item].item_status = "active"
        /\ orders[order_items[r.order_item].order].seller_account = seller
        /\ orders[order_items[r.order_item].order].order_date = date}

\* the stored summary rows of a seller and a date
SummariesOf(seller, date) ==
    {r \in db.daily_summaries : r.seller_account = seller /\ r.date = date}

\* C16: when update_daily_summary(seller, date) has returned, the stored
\* summary of that seller and date has as total_profit exactly the sum of
\* the net_profit of the stored calculations of the seller's active lines
\* whose order falls on the date (0 when there is none).
C16_TotalProfitIsSum ==
    Returned_("update_daily_summary") =>
        /\ SummariesOf(last.arg[1], last.arg[2]) # {}
        /\ \A r \in SummariesOf(last.arg[1], last.arg[2]) :
              r.total_profit =
                  SumOf(ActiveCalcsOn(last.arg[1], last.arg[2]), "net_profit")

----------------------------------------------------------------------------
(* The formula sequence of the specification, and the decimals of the      *)
(* results of calculate.                                                   *)

\* The twelve steps in the stated order, for the converted arguments i of a
\* call, with round4 and round2 exactly where the specification writes
\* them: the sums of steps 4, 5, 6, 9, 10 and the difference of step 11 are
\* not rounded.
FormulaSequence(i) ==
    LET gross_sale_price == round4(i.unit_price, i.quantity, 1)
        net_sale_price == round4(gross_sale_price - i.discount_amount, 1, 1)
        net_sale_price_excl_vat ==
            round4(net_sale_price, HUNDRED, HUNDRED + i.sales_vat_rate)
        sales_vat == round4(net_sale_price - net_sale_price_excl_vat, 1, 1)
        purchase_vat ==
            round4(i.product_cost_excl_vat, i.purchase_vat_rate, HUNDRED)
        commission_amount_excl_vat ==
            round4(net_sale_price_excl_vat, i.commission_rate, HUNDRED)
        commission_vat ==
            round4(commission_amount_excl_vat, i.commission_vat_rate, HUNDRED)
        cargo_vat == round4(i.cargo_cost_excl_vat, i.cargo_vat_rate, HUNDRED)
        platform_fee_vat ==
            round4(i.platform_fee_excl_vat, i.platform_vat_rate, HUNDRED)
        total_input_vat ==
            round4(purchase_vat + commission_vat + cargo_vat
                   + platform_fee_vat, 1, 1)
        net_vat_payable == round4(sales_vat - total_input_vat, 1, 1)
        withholding_tax ==
            round4(net_sale_price_excl_vat, i.withholding_tax_rate, HUNDRED)
        total_cost ==
            i.product_cost_excl_vat + net_vat_payable
            + commission_amount_excl_vat + i.cargo_cost_excl_vat
            + i.platform_fee_excl_vat + withholding_tax
        net_profit == net_sale_price_excl_vat - total_cost
    IN [gross_sale_price |-> gross_sale_price,
        net_sale_price |-> net_sale_price,
        net_sale_price_excl_vat |-> net_sale_price_excl_vat,
        sales_vat |-> sales_vat,
        purchase_vat |-> purchase_vat,
        product_cost_incl_vat |-> i.product_cost_excl_vat + purchase_vat,
        commission_amount_excl_vat |-> commission_amount_excl_vat,
        commission_vat |-> commission_vat,
        commission_total |-> commission_amount_excl_vat + commission_vat,
        cargo_vat |-> cargo_vat,
        cargo_cost_total |-> i.cargo_cost_excl_vat + cargo_vat,
        platform_fee_vat |-> platform_fee_vat,
        platform_fee_total |-> i.platform_fee_excl_vat + platform_fee_vat,
        total_output_vat |-> sales_vat,
        total_input_vat |-> total_input_vat,
        net_vat_payable |-> net_vat_payable,
        withholding_tax |-> withholding_tax,
        total_trendyol_deductions |->
            commission_amount_excl_vat + commission_vat
            + i.cargo_cost_excl_vat + cargo_vat
            + i.platform_fee_excl_vat + platform_fee_vat,
        total_cost |-> total_cost,
        net_profit |-> net_profit,
        profit_margin_percent |->
            IF net_sale_price_excl_vat > 0
            THEN round2(net_profit, HUNDRED, net_sale_price_excl_vat)
            ELSE 0]

\* every field of the result is the value of the formula sequence
EqualsFormula(res, i) ==
    LET formula == FormulaSequence(i)
    IN \A f \in DOMAIN formula : res[f] = formula[f]

\* the call has a quantity of at least 1 (its rates are between 0 and 100
\* in every call of the specification)
InFormulaDomain(a) == a.quantity.kind = "num" /\ a.quantity.val >= 1

\* an amount in units of 0.00001 with at most four decimals
FourDecimals(x) == x % PRECISION = 0

\* the amounts that calculate passes through or adds up without a product
\* have at most four decimals
FourDecimalCosts(i) ==
    /\ FourDecimals(i.product_cost_excl_vat)
    /\ FourDecimals(i.cargo_cost_excl_vat)
    /\ FourDecimals(i.platform_fee_excl_vat)

\* C17 as claimed: for every call with quantity >= 1 and rates in 0..100,
\* every field calculate returns is the value of the formula sequence; the
\* roundings the code adds never change a value.
C17_EqualsFormulaSequence ==
    (Returned /\ InFormulaDomain(args)) =>
        EqualsFormula(result, ConvertInputs(args))

\* C17, amended: the same for every call whose product cost, cargo cost and
\* platform fee have at most four decimals.
C17_EqualsFormulaForFourDecimals ==
    (Returned /\ InFormulaDomain(args)
              /\ FourDecimalCosts(ConvertInputs(args))) =>
        EqualsFormula(result, ConvertInputs(args))

\* a call with the cost 72.9999, two items at 0.00325 and a discount of
\* 1.00005 has returned: the sums that the code rounds again have four
\* decimals already
C17_Witness ==
    /\ Returned /\ InFormulaDomain(args)
    /\ FourDecimalCosts(ConvertInputs(args))
    /\ args.product_cost_excl_vat = Num(7299990)
    /\ args.unit_price = Num(325) /\ args.quantity = Num(2)
    /\ args.discount_amount = Num(100005)
    /\ result.product_cost_incl_vat > result.product_cost_excl_vat

\* ---------------------------------------------------------------------
\* Granularity of the returned amounts

\* the fields of CalculationResult that hold an amount of money
MonetaryFields ==
    {"gross_sale_price", "discount_amount", "net_sale_price",
     "product_cost_excl_vat", "purchase_vat", "product_cost_incl_vat",
     "sales_vat", "net_sale_price_excl_vat",
     "commission_amount_excl_vat", "commission_vat", "commission_total",
     "cargo_cost_excl_vat", "cargo_vat", "cargo_cost_total",
     "platform_fee_excl_vat", "platform_fee_vat", "platform_fee_total",
     "withholding_tax", "total_output_vat", "total_input_vat",
     "net_vat_payable", "total_trendyol_deductions", "total_cost",
     "net_profit"}

\* C18: every monetary field of every result calculate returns, the
\* amounts passed through from the call included, has at most four decimal
\* places, also when the call gives amounts with more than four.
C18_FourDecimalPlaces ==
    Returned => \A f \in MonetaryFields : FourDecimals(result[f])

\* the amounts that calculate computes (everything but the four it passes
\* through) have at most four decimal places
ComputedFields ==
    MonetaryFields \ {"discount_amount", "product_cost_excl_vat",
                      "cargo_cost_excl_vat", "platform_fee_excl_vat"}

C18_ComputedFieldsFourDecimalPlaces ==
    Returned => \A f \in ComputedFields : FourDecimals(result[f])

\* ---------------------------------------------------------------------
\* The batch operations calculate_order and recalculate_for_product

\* in the database d line l is calculated and its stored result is the
\* result of the line with the product as d has it
CalculatedIn(d, l) ==
    /\ d.items[l].is_calculated
    /\ \E r \in RowsOf(d, l) : RowIsResult(r, FreshResult(d, l))

\* the calculation of line l alone succeeds in the database d
SucceedsAlone(d, l) == calculate_order_item(d, l, Fetch(d, l)).ok

\* calculate_order: every revenue-eligible line of the order whose own
\* calculation succeeds is calculated and stored by the call
OrderLinesIsolated ==
    \A o \in OrderIds :
        \A l \in LinesOfOrder(o) :
            (Eligible(l) /\ SucceedsAlone(db, l))
                => CalculatedIn(calculate_order(db, o).db, l)

\* recalculate_for_product: every active line of the product whose own
\* calculation succeeds is calculated and stored by the call
ProductLinesIsolated ==
    \A p \in ProductIds :
        db.products[p].exists =>
            \A l \in Range(ItemsOfProduct(db, p)) :
                SucceedsAlone(db, l)
                    => CalculatedIn(recalculate_for_product(db, p).db, l)

\* C19: in calculate_order and in recalculate_for_product the failure of
\* one line does not reach its sibling lines: from every database, every
\* other eligible line of the batch is still calculated and its result
\* stored.
C19_FailureIsolated == OrderLinesIsolated /\ ProductLinesIsolated

\* the active lines that reference product p in the database d
ActiveLinesOf(d, p) ==
    {l \in Lines :
        d.items[l].product = p /\ order_items[l].item_status = "active"}

\* C20: from every database, recalculate_for_product(p), when it returns,
\* returns the number of active lines referencing p, and each of these
\* lines, calculated before or not, then has is_calculated set and exactly
\* one stored result, which is the result of the line with the product as
\* it is now; and whether it returns or raises, every line that does not
\* reference p or is not active keeps its stored results and its flag.
C20_RecalculatesExactlyLinesOfProduct ==
    \A p \in ProductIds :
        db.products[p].exists =>
            LET out == recalculate_for_product(db, p)
                selected == ActiveLinesOf(db, p)
            IN /\ out.ok =>
                    /\ out.ret = Cardinality(selected)
                    /\ \A l \in selected :
                          /\ CalculatedIn(out.db, l)
                          /\ Cardinality(RowsOf(out.db, l)) = 1
               /\ \A l \in Lines \ selected :
                     /\ RowsOf(out.db, l) = RowsOf(db, l)
                     /\ out.db.items[l].is_calculated
                           = db.items[l].is_calculated

\* recalculate_for_product(1) has returned 2 on a database in which the
\* returned line 3 of the product has a stored result: the two active lines
\* of the product are calculated, the returned line has its result, and the
\* line of the other product has none
C20_Witness ==
    /\ Returned_("recalculate_for_product") /\ last.arg = <<1>>
    /\ last.ret = 2
    /\ ActiveLinesOf(db, 1) = {1, 2}
    /\ db.items[3].product = 1
    /\ \A l \in {1, 2} : CalculatedIn(db, l)
    /\ RowsOf(db, 3) # {} /\ RowsOf(db, 4) = {} /\ ~db.items[4].is_calculated

----------------------------------------------------------------------------
(* The summaries.                                                          *)

\* the database d without any stored daily summary
WithoutSummaries(d) == [d EXCEPT !.daily_summaries = {}]

\* C21: there is at most one DailyProfitSummary row per seller and date,
\* and from every database update_daily_summary writes, for every seller
\* and date, the row it writes on the same database without any stored
\* summary: the row depends only on the calculations and orders, never on
\* the summary stored before, and it is the one row of its key afterwards.
C21_SummaryRecomputed ==
    /\ \A s \in Sellers, o \in OrderIds :
          Cardinality(SummariesOf(s, orders[o].order_date)) <= 1
    /\ \A s \in Sellers, o \in OrderIds :
          LET date == orders[o].order_date
              out == update_daily_summary(db, s, date)
              fresh == update_daily_summary(WithoutSummaries(db), s, date)
          IN /\ out.ok = fresh.ok
             /\ out.ret = fresh.ret
             /\ out.ok =>
                   {r \in out.db.daily_summaries :
                        r.seller_account = s /\ r.date = date} = {out.ret}

\* update_daily_summary(1, 1) has returned as the third operation on a
\* database that had the summaries of both sellers from the start: the
\* summary of seller 1 has replaced the one written before line 2 was
\* recalculated with the cost of its product
C21_Witness ==
    /\ Returned_("update_daily_summary") /\ last.arg = <<1, 1>>
    /\ last.n = 3
    /\ SummariesOf(2, 2) # {}
    /\ \E r \in SummariesOf(1, 1) : r.items_with_cost = 1

\* the stored calculations of the active lines that reference product p
ActiveCalcsOf(p) ==
    {r \in db.calculations :
        /\ db.items[r.order_item].product = p
        /\ order_items[r.order_item].item_status = "active"}

\* the fields of a product summary that hold a total or an average
ProductTotals ==
    {"total_quantity_sold", "total_revenue", "total_cost", "total_profit",
     "average_profit_per_item", "average_margin",
     "last_30_days_quantity", "last_30_days_profit"}

\* C22: when update_product_summary(p) has returned, the one stored summary
\* of p has is_profitable = (total_profit > 0), where total_profit is the
\* sum of net_profit over the stored calculations of the active lines of p:
\* with a sum of zero the product is stored as not profitable, without any
\* calculated line also with every total 0, and an average is 0 when the
\* total quantity (the total revenue) is not positive; and from every
\* database the call returns for an existing product whose total revenue is
\* not positive.
C22_ProductSummaryProfitable ==
    /\ Returned_("update_product_summary") =>
          LET p == last.arg[1]
              total_profit == SumOf(ActiveCalcsOf(p), "net_profit")
              stored == {r \in db.product_summaries : r.product = p}
          IN /\ stored = {last.ret}
             /\ \A r \in stored :
                   /\ r.is_profitable = (total_profit > 0)
                   /\ (total_profit = 0) => ~r.is_profitable
                   /\ (ActiveCalcsOf(p) = {}) =>
                         /\ ~r.is_profitable
                         /\ \A f \in ProductTotals : r[f] = 0
                   /\ (SumOfQuantity(ActiveCalcsOf(p)) <= 0) =>
                         r.average_profit_per_item = 0
                   /\ (SumOf(ActiveCalcsOf(p), "net_sale_price_excl_vat")
                          <= 0) => r.average_margin = 0
    /\ \A p \in ProductIds :
          (/\ db.products[p].exists
           /\ SumOf(ActiveCalcsOf(p), "net_sale_price_excl_vat") <= 0)
              => update_product_summary(db, p).ok

\* update_product_summary(1) has returned for the product whose one
\* calculated line has the net profit 0 on a revenue of 100.00: the summary
\* says not profitable
C22_Witness ==
    /\ Returned_("update_product_summary") /\ last.arg = <<1>>
    /\ ActiveCalcsOf(1) # {}
    /\ SumOf(ActiveCalcsOf(1), "net_profit") = 0
    /\ last.ret.total_revenue > 0
    /\ ~last.ret.is_profitable

----------------------------------------------------------------------------
(* The commission rate of a line.                                          *)

\* neither line l nor its product in the database d names a commission rate
NoCommissionRate(d, l) ==
    /\ order_items[l].commission_rate = 0
    /\ Fetch(d, l).product.exists => Fetch(d, l).product.commission_rate = None

\* C23: when calculate_order_item has returned for a line and neither the
\* line nor its product names a commission rate, the commission rate of the
\* stored result is the default_commission_rate of the seller account of
\* the line's order.
C23_SellerDefaultCommission ==
    (Returned_("calculate_order_item") /\ NoCommissionRate(db, last.arg[1]))
        => \A r \in RowsOf(db, last.arg[1]) :
              r.commission_rate =
                  seller_accounts[orders[order_items[last.arg[1]].order]
                                      .seller_account].default_commission_rate

----------------------------------------------------------------------------
(* The range of the margin, the eligibility of the lines of the bulk       *)
(* operations, and their progress.                                         *)

\* C28: for every order line of the data model (prices and costs of two
\* decimals, quantity >= 1, rates in 0..100) and the product it has in any
\* database, the profit_margin_percent that calculate returns is below
\* 100000.00 in absolute value, so that the column can store it.
C28_MarginFitsColumn ==
    \A l \in Lines :
        FreshResult(db, l).status = "ok" => Storable(FreshResult(db, l))

\* C29: from every database, calculate_uncalculated_items and
\* recalculate_for_product leave the stored calculations of every line
\* that is not revenue-eligible (its order is cancelled or returned, or
\* the line is not active) as they are.
C29_BulkSkipsIneligibleLines ==
    /\ \A s \in Sellers, limit \in 1 .. MaxLimit :
          \A l \in Lines :
             ~Eligible(l) =>
                RowsOf(calculate_uncalculated_items(db, s, limit).db, l)
                   = RowsOf(db, l)
    /\ \A p \in ProductIds :
          db.products[p].exists =>
             \A l \in Lines :
                ~Eligible(l) =>
                   RowsOf(recalculate_for_product(db, p).db, l)
                      = RowsOf(db, l)

\* C30: repeating calculate_uncalculated_items(seller, limit) gets every
\* not-yet-calculated active line of the seller whose calculation can
\* succeed calculated: as long as there is such a line, a call changes the
\* database (a call that changes nothing would be repeated without effect
\* for ever, the calls being deterministic); and a line with is_calculated
\* set is not among the lines a call attempts.
C30_BulkCalculationProgresses ==
    \A s \in Sellers, limit \in 1 .. MaxLimit :
        /\ (\E l \in Candidates(db, s) : SucceedsAlone(db, l))
              => calculate_uncalculated_items(db, s, limit).db # db
        /\ \A l \in Range(Uncalculated(db, s, limit)) :
              ~db.items[l].is_calculated

----------------------------------------------------------------------------
(* The charges of a line.                                                  *)

\* C27: for every line whose cargo_cost and platform_service_fee are
\* VAT-included amounts of two decimals, the cargo_cost_total and the
\* platform_fee_total that calculate_for_order_item returns (the base
\* round4(cost / 1.20) with the VAT of 20 % added again) are exactly the
\* reported amounts.
C27_ChargeRoundTrip ==
    Returned =>
        /\ result.cargo_cost_total = args.cargo_cost
        /\ result.platform_fee_total = args.platform_service_fee

\* the line with the cargo cost 0.05 has been calculated: the base 0.0417
\* was rounded up and its VAT 0.0083 down
C27_Witness ==
    /\ Returned
    /\ args.cargo_cost = 5000
    /\ result.cargo_cost_excl_vat = 4170
    /\ result.cargo_vat = 830


----------------------------------------------------------------------------
(* The service called from several workers at once.                        *)

\* C24: in every committed database a line has a stored calculation only
\* if its is_calculated flag is true, and when the only call made so far
\* for a line has failed, the stored calculation, the flag and the product
\* link of the line are as they were when the call began.
C24_AtomicToObservers ==
    /\ \A l \in Lines : RowsOf(db, l) # {} => db.items[l].is_calculated
    /\ \A l \in Lines :
          last.calc[l].count = 1 /\ last.calc[l].ended = "aborted"
          => LineState(db, l) = last.calc[l].began

\* a call that linked its line and then failed has been rolled back, while
\* another call has upserted the calculation of a line that the committed
\* database does not hold yet
C24_Witness ==
    /\ \E l \in Lines :
          /\ last.calc[l].count = 1
          /\ last.calc[l].ended = "aborted"
          /\ last.calc[l].began.item.product = NoProduct
    /\ \E w \in Workers, l \in Lines :
          HoldsCalc(txn[w], l) /\ RowsOf(db, l) = {}

\* a call of calculate_order_item for line l is running
InFlight(l) == \E w \in Workers : IsCalculation(txn[w]) /\ txn[w].l = l

\* C25: when the calls for a line have finished, and the one that started
\* last has committed a result computed from the product as it is now, that
\* result is the stored result of the line: no result computed by an
\* earlier call, from an older product cost, has overwritten it.
C25_LaterCallWins ==
    \A l \in Lines :
        /\ last.calc[l].ended = "committed"
        /\ ~InFlight(l)
        /\ last.calc[l].res = FreshResult(db, l)
        => \E r \in RowsOf(db, l) : RowIsResult(r, last.calc[l].res)

\* a call of update_daily_summary for the day of order o is running
Summarising(o) == \E w \in Workers : IsSummary(txn[w]) /\ txn[w].o = o

\* C26: when the recomputations of the summary of a seller and day have
\* finished and the one that started last has committed, the stored summary
\* is the aggregate that recomputation read: no summary computed from an
\* older snapshot has been written over it.
C26_NoLostSummaryUpdate ==
    \A o \in OrderIds :
        last.summary[o].ended = "committed" /\ ~Summarising(o)
        => SummariesOf(orders[o].seller_account, orders[o].order_date)
              = {last.summary[o].row}

====
